---- MODULE Spec2Model ----
(***************************************************************************)
(* nvidia-persistenced: the device table, the persistence-mode / NUMA      *)
(* state machine of nvidia-persistenced.c, the RPC gate of                 *)
(* command_server.c and the online / offline sequences of nvidia-numa.c.   *)
(*                                                                         *)
(* The daemon is single threaded.  Every call it makes into the outside    *)
(* world (libnvidia-cfg, an ioctl on the device file, a read or write of   *)
(* a sysfs file) is one step of the model: the step takes the call's       *)
(* outcome from the environment and then runs the daemon's own code up to  *)
(* the next such call.  pc names the call the daemon is about to make and  *)
(* frame holds the locals of the functions on its stack.                   *)
(***************************************************************************)
EXTENDS Integers, Sequences, FiniteSets, TLC

(***************************************************************************)
(* Bounds of the model.                                                    *)
(***************************************************************************)
\* Number of memory blocks in a device's NUMA region (block ids 1..MaxBlocks).
MaxBlocks == 2
\* Number of blacklisted (to be retired) addresses the driver reports.
MaxBlacklist == 2
\* Number of block ids below the wrap of a uint32_t that are told apart.
MaxWrap == 2
\* Number of block attempts of one node state change that are recorded.
MaxAttempts == MaxBlocks + 3
\* Number of runs of shutdown_daemon() in one process that are followed.
MaxTeardowns == 2

(***************************************************************************)
(* Program constants.                                                      *)
(***************************************************************************)
NV_IOCTL_NUMA_STATUS_DISABLED            == 0
NV_IOCTL_NUMA_STATUS_OFFLINE             == 1
NV_IOCTL_NUMA_STATUS_ONLINE_IN_PROGRESS  == 2
NV_IOCTL_NUMA_STATUS_ONLINE              == 3
NV_IOCTL_NUMA_STATUS_ONLINE_FAILED       == 4
NV_IOCTL_NUMA_STATUS_OFFLINE_IN_PROGRESS == 5
NV_IOCTL_NUMA_STATUS_OFFLINE_FAILED      == 6

\* errno values; a status is 0 or the negated errno.
ENOENT  == 2
EIO     == 5
ENOMEM  == 12
EEXIST  == 17
EINVAL  == 22

NV_PERSISTENCE_MODE_DISABLED == "NV_PERSISTENCE_MODE_DISABLED"
NV_PERSISTENCE_MODE_ENABLED  == "NV_PERSISTENCE_MODE_ENABLED"
NV_NUMA_STATUS_OFFLINE       == "NV_NUMA_STATUS_OFFLINE"
NV_NUMA_STATUS_ONLINE        == "NV_NUMA_STATUS_ONLINE"
\* A value of the wire enum that names no mode or status (xdr_enum accepts any int).
INVALID_ENUM                 == "INVALID_ENUM"

NVPD_SUCCESS                    == "NVPD_SUCCESS"
NVPD_ERR_DEVICE_NOT_FOUND       == "NVPD_ERR_DEVICE_NOT_FOUND"
NVPD_ERR_INVALID_ARGUMENT       == "NVPD_ERR_INVALID_ARGUMENT"
NVPD_ERR_DRIVER                 == "NVPD_ERR_DRIVER"
NVPD_ERR_NUMA_FAILURE           == "NVPD_ERR_NUMA_FAILURE"
NVPD_ERR_PERMISSIONS            == "NVPD_ERR_PERMISSIONS"
NVPD_ERR_UNKNOWN                == "NVPD_ERR_UNKNOWN"

NULL == "NULL"

(***************************************************************************)
(* The environment: PCI addresses, requests, kernel NUMA descriptors.      *)
(***************************************************************************)
\* PCI addresses (domain, bus, slot, function) the driver library enumerates.
\* The first GPU has device NUMA memory, the second has none (NUMA status
\* Disabled).
GpuA == [domain |-> 0, bus |-> 1, slot |-> 0, function |-> 0]
GpuB == [domain |-> 0, bus |-> 2, slot |-> 0, function |-> 0]

\* The library's list is copied as it is: it can be empty, and nothing in
\* setup_devices keeps it from naming one address twice.
PciLists == { <<GpuA>>, <<GpuA, GpuB>>, <<GpuA, GpuA>>, <<>> }

\* Addresses a client can name: the GPUs' and one of no GPU, any function.
RequestBuses     == {1, 2, 3}
RequestFunctions == {0, 1}
RequestModes     == {NV_PERSISTENCE_MODE_DISABLED, NV_PERSISTENCE_MODE_ENABLED, INVALID_ENUM}
RequestStatuses  == {NV_NUMA_STATUS_OFFLINE, NV_NUMA_STATUS_ONLINE, INVALID_ENUM}
\* The peer's credentials: uid 0, another uid, or getsockopt(SO_PEERCRED) failing.
PeerCreds        == {"root", "user", "error"}

BlockIds == 1..MaxBlocks

Max(S) == CHOOSE x \in S : \A y \in S : y <= x
Min(S) == CHOOSE x \in S : \A y \in S : x <= y

RECURSIVE BitAnd(_, _)
BitAnd(a, b) ==
    IF a = 0 \/ b = 0 THEN 0
    ELSE (IF a % 2 = 1 /\ b % 2 = 1 THEN 1 ELSE 0) + 2 * BitAnd(a \div 2, b \div 2)

\* NV_IS_ALIGNED(v, gran): 0 == (v & (gran - 1)); gran - 1 of 0 is all ones.
NV_IS_ALIGNED(v, gran) ==
    IF gran = 0 THEN v = 0 ELSE BitAnd(v, gran - 1) = 0

(***************************************************************************)
(* A device's kernel side: what NV_ESC_NUMA_INFO reports, the memory       *)
(* blocks that exist under /sys/devices/system/memory, which of them are   *)
(* online and in which zone, and which ids the kernel lists in the node's  *)
(* directory.  node_ids and auto are the kernel's policy and never change. *)
(***************************************************************************)
KernelProfile(nid, mb, addr, size, nbl, node_ids, auto, st) ==
    [ nid           |-> nid,
      status        |-> st,
      memblock_size |-> mb,
      numa_mem_addr |-> addr,
      numa_mem_size |-> size,
      numEntries    |-> nbl,        \* offline_addresses.numEntries
      node_ids      |-> node_ids,   \* block ids the kernel links into node<nid>
      auto          |-> auto,       \* state of a freshly probed block
      exists        |-> {},         \* memory<N> directories that exist
      online        |-> {},         \* blocks whose state file reads "online"
      normal        |-> {} ]        \* online blocks whose valid_zones does not begin with Movable

\* The kernel descriptors a run starts from.
NumaProfiles ==
    { \* the regular case: aligned region of MaxBlocks blocks, all in the node
      KernelProfile(1, 2, 2, 2 * MaxBlocks, MaxBlacklist, BlockIds, "offline",
                    NV_IOCTL_NUMA_STATUS_OFFLINE),
      \* the node lists one block fewer than the region holds
      KernelProfile(1, 2, 2, 2 * MaxBlocks, 0, 1..(MaxBlocks - 1), "offline",
                    NV_IOCTL_NUMA_STATUS_OFFLINE),
      \* probed memory is onlined behind the daemon's back, into the movable zone
      KernelProfile(1, 2, 2, 2 * MaxBlocks, MaxBlacklist, BlockIds, "online_movable",
                    NV_IOCTL_NUMA_STATUS_OFFLINE),
      \* ... or into a zone that is not movable
      KernelProfile(1, 2, 2, 2 * MaxBlocks, 0, BlockIds, "online_normal",
                    NV_IOCTL_NUMA_STATUS_OFFLINE),
      \* a region that does not start on a memory block boundary
      KernelProfile(1, 2, 3, 2 * MaxBlocks, 0, BlockIds, "offline",
                    NV_IOCTL_NUMA_STATUS_OFFLINE),
      \* a region that does not end on a memory block boundary
      KernelProfile(1, 2, 2, 2 * MaxBlocks + 1, 0, BlockIds, "offline",
                    NV_IOCTL_NUMA_STATUS_OFFLINE),
      \* a descriptor without a node
      KernelProfile(-1, 2, 2, 2 * MaxBlocks, 0, {}, "offline",
                    NV_IOCTL_NUMA_STATUS_OFFLINE),
      \* descriptors with a zero memory block size, base address or region size
      KernelProfile(1, 0, 2, 2 * MaxBlocks, 0, BlockIds, "offline",
                    NV_IOCTL_NUMA_STATUS_OFFLINE),
      KernelProfile(1, 2, 0, 2 * MaxBlocks, 0, BlockIds, "offline",
                    NV_IOCTL_NUMA_STATUS_OFFLINE),
      KernelProfile(1, 2, 2, 0, 0, BlockIds, "offline",
                    NV_IOCTL_NUMA_STATUS_OFFLINE),
      \* memory an earlier run of the daemon onlined and left online
      [KernelProfile(1, 2, 2, 2 * MaxBlocks, 0, BlockIds, "offline",
                     NV_IOCTL_NUMA_STATUS_ONLINE)
          EXCEPT !.exists = BlockIds, !.online = BlockIds],
      \* a node whose directory also lists memory0
      [KernelProfile(1, 2, 2, 2 * MaxBlocks, 0, 0..MaxBlocks, "offline",
                     NV_IOCTL_NUMA_STATUS_OFFLINE)
          EXCEPT !.exists = {0}] }

\* A GPU without device NUMA memory.
NoNumaProfile ==
    KernelProfile(-1, 0, 0, 0, 0, {}, "offline", NV_IOCTL_NUMA_STATUS_DISABLED)

\* The machines a run starts on: one GPU with device NUMA memory, or two
\* GPUs (or none) without.
Hosts ==
    { [pci_list |-> <<GpuA>>, profile |-> p] : p \in NumaProfiles }
    \cup { [pci_list |-> l, profile |-> NoNumaProfile] : l \in PciLists }

\* The entries readdir() returns for /sys/devices/system/node/node<nid>.
NodeDir(k) == k.exists \cap k.node_ids

(***************************************************************************)
(* State.                                                                  *)
(***************************************************************************)
VARIABLES
    phase,          \* "setup", "serving", "shutdown", "exited"
    pc,             \* the external call the daemon is about to make
    frame,          \* locals of the active functions (reset when their function returns)
    idx,            \* loop index i of setup_devices / shutdown_daemon
    devices,        \* the device table (<<>> while devices == NULL)
    num_devices,
    libnvidia_cfg,  \* dlopen handle held
    socket_fd,
    pid_fd,
    pipe_write_fd,  \* the init pipe's write end, main's local
    exit_status,
    open_fds,       \* descriptors the process holds open
    kern,           \* kernel side of each GPU, by bus number
    fs,             \* runtime files that exist
    pci_list,       \* what nvCfgGetPciDevices reports
    default_mode,   \* options.persistence_mode
    call,           \* the command being run or last run, with what it did
    pid,            \* the global pid: 0 in the child until getpid() is saved
    remove_dir,     \* the daemon created the runtime directory
    parent,         \* the process that called fork(): "none", "waiting" or its exit status
    init_pipe,      \* the init pipe: a byte was written, the child holds the write end
    other,          \* another instance of the daemon and the runtime files it owns
    teardown        \* the runs of shutdown_daemon() in this process

vars == << phase, pc, frame, idx, devices, num_devices, libnvidia_cfg, socket_fd,
           pid_fd, pipe_write_fd, exit_status, open_fds, kern, fs, pci_list, default_mode, call,
           pid, remove_dir, parent, init_pipe, other, teardown >>

\* NvPdDevice after memset(devices, 0, ...).
ZeroDevice ==
    [ nv_cfg_handle |-> NULL,
      pci_info      |-> [domain |-> 0, bus |-> 0, slot |-> 0, function |-> 0],
      mode          |-> NV_PERSISTENCE_MODE_DISABLED,
      numa_status   |-> NV_NUMA_STATUS_OFFLINE,
      fd            |-> 0 ]

NoParams ==
    [ nid |-> 0, status |-> 0, memblock_size |-> 0, numa_mem_addr |-> 0,
      numa_mem_size |-> 0, numEntries |-> 0 ]

NoFrame ==
    [ caller         |-> "none",   \* "rpc", "setup", "shutdown"
      cmd            |-> "none",
      dev            |-> 0,        \* index of the device get_device returned
      mode           |-> NULL,     \* requested mode (or NUMA status, for SetNumaStatus)
      old_mode       |-> NULL,
      ret            |-> NULL,     \* ret of nvPdSetDevicePersistenceMode
      rollback       |-> FALSE,    \* inside the set_device_mode of line 125
      numa_status    |-> NULL,     \* argument of set_device_numa_status
      fd             |-> -1,       \* fd of nvNumaOnlineMemory / offline_memory
      in_online      |-> FALSE,    \* offline_memory was called from online_failed
      params         |-> NoParams, \* numa_info_params
      new_state      |-> 0,        \* argument of change_numa_node_state
      i              |-> 0,        \* the running loop's variable
      start_id       |-> 0,
      end_id         |-> 0,
      blocks_changed |-> 0,
      err_status     |-> 0,
      status         |-> 0,        \* status of offline_memory
      n_movable      |-> 0 ]       \* num_memory_online_movable

\* What the command in progress was asked and has done so far; kept until the
\* command's caller has taken the result.
NoCall ==
    [ caller  |-> "none",
      cmd     |-> "none",
      bus     |-> 0,
      arg     |-> NULL,
      cred    |-> "root",
      dev     |-> 0,
      ret     |-> NULL,        \* NULL until the command returns
      mode0   |-> NULL,        \* the device's stored mode when the command started
      handle0 |-> NULL,        \* the device's libnvidia-cfg handle then
      in_progress0 |-> FALSE,  \* the kernel status was an in-progress one then
      numa_ret |-> NULL,       \* what set_device_numa_status returned
      numa_failed |-> FALSE,   \* a NUMA step of this teardown failed
      layers  |-> <<>>,        \* "attach" / "detach" calls and NUMA sequences, in order
      cfg_ok  |-> <<>>,        \* outcome of each attach / detach call
      writes  |-> <<>>,        \* kernel NUMA statuses written, in order
      last_set_ok |-> TRUE,    \* outcome of the latest set-status ioctl
      status0 |-> NULL,        \* the kernel NUMA status when the command started
      io_failed |-> FALSE,     \* an open, ioctl, read or write of the NUMA layer failed
      detach_failed |-> FALSE, \* a nvCfgCloseDevice call of this teardown failed
      online0 |-> {},          \* the device's online memory blocks when the command started
      interrupted |-> 0,       \* bus of the device whose status change the signal cut short
      probes  |-> <<>>,        \* start addresses written to the probe file, in order
      already_probed |-> FALSE, \* a probe write reported a span as probed already
      dir_at_check |-> {},     \* the node directory's blocks when the auto-online check began
      normal_at_check |-> {},  \* the blocks online then with another zone first
      movable_at_check |-> {}, \* the blocks online then with Movable first in valid_zones
      steps   |-> {},          \* the external calls of the NUMA layer made so far, by place
      failed_at |-> NULL,      \* the place where the online sequence first failed
      offline_shortfall |-> FALSE, \* the same for the offline block pass
      offline_found |-> -1,    \* the kernel status offline_memory read (-1: none read)
      retired |-> <<>>,        \* outcome of each write to hard_offline_page, in order
      pass_state |-> 0,        \* new_state of the latest node state change
      pass_dir |-> {},         \* the node directory's blocks when its id scan ran
      attempts |-> <<>>,       \* block ids it handed to change_memblock_state, in order
      pass_done |-> FALSE,     \* its loop has ended
      shortfall |-> FALSE ]    \* the online block pass changed fewer blocks than the region holds


(***************************************************************************)
(* The daemon's own code between two external calls.  m is the part of the *)
(* state that code changes; each operator below runs a stretch of the C    *)
(* code on m and leaves m.pc at the next external call.                    *)
(***************************************************************************)
Machine ==
    [ pc |-> pc, frame |-> frame, idx |-> idx, devices |-> devices,
      call |-> call, open_fds |-> open_fds ]

Dev(m) == m.devices[m.frame.dev]

\* open() returns the lowest descriptor number not in use.
NewFd(open) == Min({n \in 0..Cardinality(open) : n \notin open})

\* A lookup that does not compare the bus: with it, an address of no device
\* finds one.
get_device_any_bus(devs, n, domain, bus, slot) ==
    LET hits == { i \in 1..n : /\ i <= Len(devs)
                               /\ devs[i].pci_info.domain = domain
                               /\ devs[i].pci_info.slot = slot }
    IN  IF devs # <<>> /\ hits # {} THEN Min(hits) ELSE 0

\* get_device(): the first record whose domain, bus and slot match, 0 for NULL.
get_device(devs, n, domain, bus, slot) ==
    LET hits == { i \in 1..n : /\ i <= Len(devs)
                               /\ devs[i].pci_info.domain = domain
                               /\ devs[i].pci_info.bus = bus
                               /\ devs[i].pci_info.slot = slot }
    IN  IF devs # <<>> /\ hits # {} THEN Min(hits) ELSE 0

\* CommandReturn() for a loop of shutdown_daemon that would not move to the
\* next record after a command.
CommandReturn_same_record(m, ret) ==
    LET done == [m EXCEPT !.call.ret = ret, !.frame = NoFrame]
    IN  CASE m.frame.caller = "rpc"      -> [done EXCEPT !.pc = "svc_return"]
          [] m.frame.caller = "setup"    -> [done EXCEPT !.pc = "setup_loop",
                                                         !.idx = m.idx + 1]
          [] m.frame.caller = "shutdown" -> [done EXCEPT !.pc = "shutdown_loop"]

\* A command function returns ret to whoever called it: the RPC service
\* routine, the loop of setup_devices or the loop of shutdown_daemon.
CommandReturn(m, ret) ==
    LET done == [m EXCEPT !.call.ret = ret, !.frame = NoFrame]
    IN  CASE m.frame.caller = "rpc"      -> [done EXCEPT !.pc = "svc_return"]
          [] m.frame.caller = "setup"    -> [done EXCEPT !.pc = "setup_loop",
                                                         !.idx = m.idx + 1]
          [] m.frame.caller = "shutdown" -> [done EXCEPT !.pc = "shutdown_loop",
                                                         !.idx = m.idx + 1]

\* set_device_mode() without the test of line 278: it calls the library even
\* when the device already is in the mode asked for.
SetDeviceModeCall_unconditional(device, mode) ==
    IF mode = NV_PERSISTENCE_MODE_DISABLED
    THEN [site |-> "close_device", status |-> NVPD_SUCCESS]
    ELSE IF mode = NV_PERSISTENCE_MODE_ENABLED
         THEN [site |-> "open_pci_device", status |-> NVPD_SUCCESS]
    ELSE [site |-> "return", status |-> NVPD_ERR_INVALID_ARGUMENT]

\* set_device_mode() up to its call into libnvidia-cfg: the call it is about
\* to make, or the status it returns without one.
SetDeviceModeCall(device, mode) ==
    IF mode = device.mode THEN [site |-> "return", status |-> NVPD_SUCCESS]
    ELSE IF mode = NV_PERSISTENCE_MODE_DISABLED
         THEN [site |-> "close_device", status |-> NVPD_SUCCESS]
    ELSE IF mode = NV_PERSISTENCE_MODE_ENABLED
         THEN [site |-> "open_pci_device", status |-> NVPD_SUCCESS]
    ELSE [site |-> "return", status |-> NVPD_ERR_INVALID_ARGUMENT]

\* set_device_mode() storing the mode whether or not the library call
\* succeeded (line 324 without the test of line 323).
set_device_mode_always_stores(device, mode, success, handle) ==
    LET status == IF success THEN NVPD_SUCCESS ELSE NVPD_ERR_DRIVER
        d1 == IF mode = NV_PERSISTENCE_MODE_DISABLED
              THEN (IF success THEN [device EXCEPT !.nv_cfg_handle = NULL] ELSE device)
              ELSE (IF success THEN [device EXCEPT !.nv_cfg_handle = handle] ELSE device)
    IN  [device |-> [d1 EXCEPT !.mode = mode], status |-> status]

\* set_device_mode() with line 294 outside the else: the handle is dropped
\* even when nvCfgCloseDevice failed.
set_device_mode_clears_handle(device, mode, success, handle) ==
    LET status == IF success THEN NVPD_SUCCESS ELSE NVPD_ERR_DRIVER
        d1 == IF mode = NV_PERSISTENCE_MODE_DISABLED
              THEN [device EXCEPT !.nv_cfg_handle = NULL]
              ELSE (IF success THEN [device EXCEPT !.nv_cfg_handle = handle] ELSE device)
        d2 == IF status = NVPD_SUCCESS THEN [d1 EXCEPT !.mode = mode] ELSE d1
    IN  [device |-> d2, status |-> status]

\* set_device_mode() from the library call's outcome on: the device record
\* it leaves and the status it returns.  handle is what nvCfgOpenPciDevice
\* assigned (it assigns only on success).
set_device_mode(device, mode, success, handle) ==
    LET status == IF success THEN NVPD_SUCCESS ELSE NVPD_ERR_DRIVER
        d1 == IF mode = NV_PERSISTENCE_MODE_DISABLED
              THEN (IF success THEN [device EXCEPT !.nv_cfg_handle = NULL] ELSE device)
              ELSE (IF success THEN [device EXCEPT !.nv_cfg_handle = handle] ELSE device)
        d2 == IF status = NVPD_SUCCESS THEN [d1 EXCEPT !.mode = mode] ELSE d1
    IN  [device |-> d2, status |-> status]

\* nvPdSetDevicePersistenceMode() without lines 124-126: no compensating call.
AfterNumaStep_no_rollback(m, ret) == CommandReturn(m, ret)

\* nvPdSetDevicePersistenceMode() compensating without old_mode: after a
\* failed NUMA step it always switches to the mode opposite to the request.
AfterNumaStep_switches_back_always(m, ret) ==
    IF m.frame.cmd = "SetNumaStatus" THEN CommandReturn(m, ret)
    ELSE IF ret # NVPD_SUCCESS
         THEN LET back == IF m.frame.mode = NV_PERSISTENCE_MODE_ENABLED
                          THEN NV_PERSISTENCE_MODE_DISABLED
                          ELSE NV_PERSISTENCE_MODE_ENABLED
                  c == SetDeviceModeCall(Dev(m), back)
              IN  IF c.site = "return" THEN CommandReturn(m, ret)
                  ELSE [m EXCEPT !.pc = c.site, !.frame.rollback = TRUE,
                                 !.frame.ret = ret, !.frame.old_mode = back]
         ELSE CommandReturn(m, ret)

\* nvPdSetDevicePersistenceMode() lines 123-129, with ret the status of
\* set_device_numa_status(): the compensating set_device_mode, or return.
AfterNumaStep(m, ret) ==
    IF m.frame.cmd = "SetNumaStatus" THEN CommandReturn(m, ret)
    ELSE IF ret # NVPD_SUCCESS /\ m.frame.old_mode # m.frame.mode
         THEN LET c == SetDeviceModeCall(Dev(m), m.frame.old_mode)
              IN  IF c.site = "return" THEN CommandReturn(m, ret)
                  ELSE [m EXCEPT !.pc = c.site, !.frame.rollback = TRUE,
                                 !.frame.ret = ret]
         ELSE CommandReturn(m, ret)

\* set_device_numa_status() without line 382: the new status is not stored.
FinishSetDeviceNumaStatus_not_stored(m, status) ==
    AfterNumaStep([m EXCEPT !.call.numa_ret = status], status)

\* set_device_numa_status() lines 381-389: store the status on success.
FinishSetDeviceNumaStatus(m, status) ==
    LET m1 == IF status = NVPD_SUCCESS
              THEN [m EXCEPT !.devices[m.frame.dev].numa_status = m.frame.numa_status]
              ELSE m
    IN  AfterNumaStep([m1 EXCEPT !.call.numa_ret = status,
                                 !.call.numa_failed = @ \/ status # NVPD_SUCCESS],
                      status)

\* set_device_numa_status() refusing a device without a NUMA descriptor
\* before anything else, for either status.
EnterSetDeviceNumaStatus_needs_descriptor(m, numa_status) ==
    LET d  == Dev(m)
        m0 == [m EXCEPT !.frame.numa_status = numa_status]
    IN  IF d.fd < 0
        THEN FinishSetDeviceNumaStatus(m0, NVPD_ERR_NUMA_FAILURE)
        ELSE IF numa_status = d.numa_status
        THEN AfterNumaStep([m0 EXCEPT !.call.numa_ret = NVPD_SUCCESS], NVPD_SUCCESS)
        ELSE IF numa_status = NV_NUMA_STATUS_OFFLINE
             THEN [m0 EXCEPT !.pc = "offline_get_info", !.frame.fd = d.fd,
                             !.frame.in_online = FALSE,
                             !.call.layers = Append(@, "offline")]
        ELSE IF numa_status = NV_NUMA_STATUS_ONLINE
             THEN [m0 EXCEPT !.pc = "online_open", !.call.layers = Append(@, "online")]
        ELSE FinishSetDeviceNumaStatus(m0, NVPD_ERR_INVALID_ARGUMENT)

\* set_device_numa_status() lines 343-379 and the head of nvNumaOfflineMemory.
EnterSetDeviceNumaStatus(m, numa_status) ==
    LET d  == Dev(m)
        m0 == [m EXCEPT !.frame.numa_status = numa_status]
    IN  IF numa_status = d.numa_status
        THEN AfterNumaStep([m0 EXCEPT !.call.numa_ret = NVPD_SUCCESS], NVPD_SUCCESS)
        ELSE IF numa_status = NV_NUMA_STATUS_OFFLINE
             THEN LET m1 == [m0 EXCEPT !.call.layers = Append(@, "offline")]
                  IN  IF d.fd < 0
                      THEN FinishSetDeviceNumaStatus(m1, NVPD_ERR_NUMA_FAILURE)
                      ELSE [m1 EXCEPT !.pc = "offline_get_info", !.frame.fd = d.fd,
                                      !.frame.in_online = FALSE]
        ELSE IF numa_status = NV_NUMA_STATUS_ONLINE
             THEN [m0 EXCEPT !.pc = "online_open", !.call.layers = Append(@, "online")]
        ELSE FinishSetDeviceNumaStatus(m0, NVPD_ERR_INVALID_ARGUMENT)

\* nvPdSetDevicePersistenceMode() returning after set_device_mode(), without
\* the NUMA step of lines 121-123.
AfterSetDeviceMode_without_numa(m, status) ==
    IF m.frame.rollback THEN CommandReturn(m, m.frame.ret)
    ELSE CommandReturn(m, status)

\* nvPdSetDevicePersistenceMode() without the test of line 120: the NUMA step
\* follows set_device_mode() whatever it returned.
AfterSetDeviceMode_numa_after_failure(m, status) ==
    IF m.frame.rollback THEN CommandReturn(m, m.frame.ret)
    ELSE IF m.frame.cmd = "SetPersistenceModeOnly" THEN CommandReturn(m, status)
    ELSE EnterSetDeviceNumaStatus(m,
             IF m.frame.mode = NV_PERSISTENCE_MODE_ENABLED
             THEN NV_NUMA_STATUS_ONLINE ELSE NV_NUMA_STATUS_OFFLINE)

\* What follows a return of set_device_mode(): the end of the compensating
\* call, of nvPdSetDevicePersistenceModeOnly, or lines 120-123 of
\* nvPdSetDevicePersistenceMode.
AfterSetDeviceMode(m, status) ==
    IF m.frame.rollback THEN CommandReturn(m, m.frame.ret)
    ELSE IF m.frame.cmd = "SetPersistenceModeOnly" THEN CommandReturn(m, status)
    ELSE IF status = NVPD_SUCCESS
         THEN EnterSetDeviceNumaStatus(m,
                  IF m.frame.mode = NV_PERSISTENCE_MODE_ENABLED
                  THEN NV_NUMA_STATUS_ONLINE ELSE NV_NUMA_STATUS_OFFLINE)
         ELSE CommandReturn(m, status)

\* The head of set_device_mode() as its callers reach it.
EnterSetDeviceMode(m, mode) ==
    LET c == SetDeviceModeCall(Dev(m), mode)
    IN  IF c.site = "return" THEN AfterSetDeviceMode(m, c.status)
        ELSE [m EXCEPT !.pc = c.site]

\* The record of a command that starts on device dev (0: no such device).
StartCall(m, caller, cmd, bus, arg, cred, dev) ==
    [ NoCall EXCEPT !.caller = caller, !.cmd = cmd, !.bus = bus,
                    !.arg = arg, !.cred = cred, !.dev = dev,
                    !.mode0 = IF dev = 0 THEN NULL ELSE m.devices[dev].mode,
                    !.handle0 = IF dev = 0 THEN NULL ELSE m.devices[dev].nv_cfg_handle,
                    !.status0 = IF dev = 0 THEN NULL ELSE kern[bus].status,
                    !.online0 = IF dev = 0 THEN {} ELSE kern[bus].online,
                    !.detach_failed = (caller = "shutdown" /\ m.call.detach_failed),
                    !.numa_failed = ( /\ caller = "shutdown" /\ m.call.caller = "shutdown"
                                      /\ m.call.numa_failed ),
                    !.interrupted = IF caller = "shutdown" THEN m.call.interrupted ELSE 0,
                    !.in_progress0 =
                        /\ dev # 0
                        /\ kern[bus].status \in {NV_IOCTL_NUMA_STATUS_ONLINE_IN_PROGRESS,
                                                 NV_IOCTL_NUMA_STATUS_OFFLINE_IN_PROGRESS} ]

\* nvPdSetDevicePersistenceMode(), lines 99-119.
nvPdSetDevicePersistenceMode(m, caller, domain, bus, slot, function, mode, cred) ==
    LET dev == get_device(m.devices, num_devices, domain, bus, slot)
        m0  == [m EXCEPT !.call = StartCall(m, caller, "SetPersistenceMode", bus, mode, cred, dev),
                         !.frame = [NoFrame EXCEPT !.caller = caller,
                                                   !.cmd = "SetPersistenceMode",
                                                   !.dev = dev, !.mode = mode]]
    IN  IF dev = 0 THEN CommandReturn(m0, NVPD_ERR_DEVICE_NOT_FOUND)
        ELSE EnterSetDeviceMode([m0 EXCEPT !.frame.old_mode = m.devices[dev].mode], mode)

\* nvPdSetDevicePersistenceModeOnly() running the combined command's body.
nvPdSetDevicePersistenceModeOnly_combined(m, caller, domain, bus, slot, function, mode, cred) ==
    LET dev == get_device(m.devices, num_devices, domain, bus, slot)
        m0  == [m EXCEPT !.call = StartCall(m, caller, "SetPersistenceModeOnly", bus, mode, cred, dev),
                         !.frame = [NoFrame EXCEPT !.caller = caller,
                                                   !.cmd = "SetPersistenceMode",
                                                   !.dev = dev, !.mode = mode]]
    IN  IF dev = 0 THEN CommandReturn(m0, NVPD_ERR_DEVICE_NOT_FOUND)
        ELSE EnterSetDeviceMode([m0 EXCEPT !.frame.old_mode = m.devices[dev].mode], mode)

\* nvPdSetDevicePersistenceModeOnly(), lines 140-151.
nvPdSetDevicePersistenceModeOnly(m, caller, domain, bus, slot, function, mode, cred) ==
    LET dev == get_device(m.devices, num_devices, domain, bus, slot)
        m0  == [m EXCEPT !.call = StartCall(m, caller, "SetPersistenceModeOnly", bus, mode, cred, dev),
                         !.frame = [NoFrame EXCEPT !.caller = caller,
                                                   !.cmd = "SetPersistenceModeOnly",
                                                   !.dev = dev, !.mode = mode]]
    IN  IF dev = 0 THEN CommandReturn(m0, NVPD_ERR_DEVICE_NOT_FOUND)
        ELSE EnterSetDeviceMode(m0, mode)

\* nvPdSetDeviceNumaStatus() going through set_device_mode() first, with the
\* mode the status corresponds to, as the combined command does.
nvPdSetDeviceNumaStatus_with_attachment(m, caller, domain, bus, slot, function, status, cred) ==
    LET dev  == get_device(m.devices, num_devices, domain, bus, slot)
        mode == IF status = NV_NUMA_STATUS_ONLINE THEN NV_PERSISTENCE_MODE_ENABLED
                ELSE IF status = NV_NUMA_STATUS_OFFLINE THEN NV_PERSISTENCE_MODE_DISABLED
                ELSE INVALID_ENUM
        m0   == [m EXCEPT !.call = StartCall(m, caller, "SetNumaStatus", bus, status, cred, dev),
                          !.frame = [NoFrame EXCEPT !.caller = caller,
                                                    !.cmd = "SetPersistenceMode",
                                                    !.dev = dev, !.mode = mode]]
    IN  IF dev = 0 THEN CommandReturn(m0, NVPD_ERR_DEVICE_NOT_FOUND)
        ELSE EnterSetDeviceMode([m0 EXCEPT !.frame.old_mode = m.devices[dev].mode], mode)

\* nvPdSetDeviceNumaStatus(), lines 161-171.
nvPdSetDeviceNumaStatus(m, caller, domain, bus, slot, function, status, cred) ==
    LET dev == get_device(m.devices, num_devices, domain, bus, slot)
        m0  == [m EXCEPT !.call = StartCall(m, caller, "SetNumaStatus", bus, status, cred, dev),
                         !.frame = [NoFrame EXCEPT !.caller = caller,
                                                   !.cmd = "SetNumaStatus",
                                                   !.dev = dev, !.mode = status]]
    IN  IF dev = 0 THEN CommandReturn(m0, NVPD_ERR_DEVICE_NOT_FOUND)
        ELSE EnterSetDeviceNumaStatus(m0, status)

\* nvPdGetDevicePersistenceMode(), lines 181-192.
nvPdGetDevicePersistenceMode(m, caller, domain, bus, slot, function, cred) ==
    LET dev == get_device(m.devices, num_devices, domain, bus, slot)
        m0  == [m EXCEPT !.call = StartCall(m, caller, "GetPersistenceMode", bus, NULL, cred, dev),
                         !.frame = [NoFrame EXCEPT !.caller = caller,
                                                   !.cmd = "GetPersistenceMode",
                                                   !.dev = dev]]
    IN  IF dev = 0 THEN CommandReturn(m0, NVPD_ERR_DEVICE_NOT_FOUND)
        ELSE CommandReturn([m0 EXCEPT !.call.arg = m.devices[dev].mode], NVPD_SUCCESS)


(***************************************************************************)
(* nvidia-numa.c: the code between the calls of the online and offline     *)
(* sequences.                                                              *)
(***************************************************************************)
Close(m, fd) == [m EXCEPT !.open_fds = @ \ {fd}]

\* nvNumaOnlineMemory returning success without keeping the descriptor
\* (without line 906).
OnlineDone_drops_descriptor(m) ==
    FinishSetDeviceNumaStatus(Close(m, m.frame.fd), NVPD_SUCCESS)

\* nvNumaOnlineMemory, label done (lines 905-907).
OnlineDone(m) ==
    FinishSetDeviceNumaStatus([m EXCEPT !.devices[m.frame.dev].fd = m.frame.fd],
                              NVPD_SUCCESS)

\* nvNumaOnlineMemory failing with the closed descriptor stored in numa_info
\* (as if line 906 ran before the failure).
OnlineDriverFail_stores_descriptor(m) ==
    FinishSetDeviceNumaStatus(
        [Close(m, m.frame.fd) EXCEPT !.devices[m.frame.dev].fd = m.frame.fd],
        NVPD_ERR_NUMA_FAILURE)

\* nvNumaOnlineMemory, label driver_fail (lines 919-921).
OnlineDriverFail(m) ==
    FinishSetDeviceNumaStatus(Close(m, m.frame.fd), NVPD_ERR_NUMA_FAILURE)

\* nvNumaOnlineMemory with the label error falling through to driver_fail:
\* the failure is not written to the kernel.
OnlineError_unreported(m) == OnlineDriverFail(m)

\* nvNumaOnlineMemory, label error (line 911): the ioctl of line 912 is next.
OnlineError(m) ==
    [m EXCEPT !.pc = "online_set_failed", !.frame.params = NoParams, !.frame.i = 0,
              !.frame.n_movable = 0, !.frame.status = 0, !.frame.in_online = FALSE,
              !.call.failed_at = IF @ = NULL THEN m.pc ELSE @]

\* nvNumaOnlineMemory with the label online_failed falling through to error:
\* offline_memory(fd) of line 910 is not called.
OnlineFailed_without_rollback(m) ==
    [m EXCEPT !.pc = "online_set_failed", !.frame.params = NoParams, !.frame.i = 0,
              !.frame.n_movable = 0, !.frame.status = 0, !.frame.in_online = FALSE,
              !.call.failed_at = m.pc]

\* nvNumaOnlineMemory, label online_failed (line 910): offline_memory(fd).
OnlineFailed(m) ==
    [m EXCEPT !.pc = "offline_get_info", !.frame.in_online = TRUE,
              !.call.failed_at = m.pc]

\* nvNumaOfflineMemory() keeping the descriptor after a successful offline
\* (without lines 946-947).
OfflineMemoryReturn_keeps_descriptor(m, status) ==
    IF m.frame.in_online THEN OnlineError(m)
    ELSE IF status < 0 THEN FinishSetDeviceNumaStatus(m, NVPD_ERR_NUMA_FAILURE)
    ELSE FinishSetDeviceNumaStatus(m, NVPD_SUCCESS)

\* offline_memory() returns status: to the online sequence's error label, or
\* to nvNumaOfflineMemory (lines 937-948).
OfflineMemoryReturn(m, status) ==
    IF m.frame.in_online THEN OnlineError(m)
    ELSE IF status < 0 THEN FinishSetDeviceNumaStatus(m, NVPD_ERR_NUMA_FAILURE)
    ELSE FinishSetDeviceNumaStatus(
             [Close(m, m.frame.fd) EXCEPT !.devices[m.frame.dev].fd = -1], NVPD_SUCCESS)

\* nvNumaOnlineMemory, label set_driver_status: the head of the loop of
\* offline_blacklisted_pages, then the ioctl of line 895.
SetDriverStatus(m) ==
    IF 0 < m.frame.params.numEntries
    THEN [m EXCEPT !.pc = "retire", !.frame.i = 0]
    ELSE [m EXCEPT !.pc = "online_set_online"]

\* change_numa_node_state() returns status: to offline_memory (lines 625-632)
\* or to nvNumaOnlineMemory (lines 877-887).
ChangeStateReturn(m, status) ==
    LET m1 == [m EXCEPT !.frame.i = 0, !.frame.start_id = 0, !.frame.end_id = 0,
                        !.frame.blocks_changed = 0, !.frame.err_status = 0,
                        !.frame.new_state = 0]
    IN  IF m.frame.new_state = NV_IOCTL_NUMA_STATUS_OFFLINE
        THEN IF status < 0
             THEN [m1 EXCEPT !.pc = "offline_set_failed", !.frame.status = status]
             ELSE [m1 EXCEPT !.pc = "offline_set_offline"]
        ELSE IF status < 0 THEN OnlineFailed(m1) ELSE SetDriverStatus(m1)

\* change_numa_node_state(), lines 465-485: the value it returns once every
\* block of the range was attempted.
BlocksResult(blocks_changed, memblock_size, region_gpu_size, err_status) ==
    IF blocks_changed * memblock_size < region_gpu_size THEN err_status
    ELSE IF blocks_changed = 0 THEN -ENOMEM
    ELSE 0

EndOfBlockLoop(m) ==
    LET f     == m.frame
        short == f.blocks_changed * f.params.memblock_size < f.params.numa_mem_size
        m0    == [m EXCEPT !.call.pass_done = TRUE]
        m1    == IF short /\ f.new_state = NV_IOCTL_NUMA_STATUS_ONLINE
                 THEN [m0 EXCEPT !.call.shortfall = TRUE]
                 ELSE IF short THEN [m0 EXCEPT !.call.offline_shortfall = TRUE]
                 ELSE m0
    IN  ChangeStateReturn(m1, BlocksResult(f.blocks_changed, f.params.memblock_size,
                                           f.params.numa_mem_size, f.err_status))

\* Order of two uint32_t values.  A value of 2^31 or more is kept as the
\* negative integer with the same 32 bits (UINT32_MAX is -1).
U32GE(a, b) == IF (a < 0) = (b < 0) THEN a >= b ELSE a < 0

\* memblock_id-- of line 442.  Below zero the value wraps to UINT32_MAX and
\* goes on down through ids no memory block has; the ids more than MaxWrap
\* below the wrap are kept as one value, since the loop does the same at each.
U32Dec(i) == IF i - 1 < -MaxWrap THEN -MaxWrap ELSE i - 1

\* The loops of lines 440-462 step to the next block id (a uint32_t), or end.
NextBlock(m) ==
    LET f == m.frame
    IN  IF f.new_state = NV_IOCTL_NUMA_STATUS_ONLINE
        THEN IF U32GE(U32Dec(f.i), f.start_id)
             THEN [m EXCEPT !.pc = "chg_read_state", !.frame.i = U32Dec(f.i)]
             ELSE EndOfBlockLoop(m)
        ELSE IF U32GE(f.end_id, f.i + 1)
             THEN [m EXCEPT !.pc = "chg_read_state", !.frame.i = f.i + 1]
             ELSE EndOfBlockLoop(m)

\* Lines 443-448 / 455-461: count the block or keep its error.
BlockAttempted(m, status) ==
    NextBlock(IF status = 0 THEN [m EXCEPT !.frame.blocks_changed = @ + 1]
              ELSE [m EXCEPT !.frame.err_status = status])

\* gather_memblock_ids_for_node(): entries are the ids of the memory<N>
\* entries of the node directory; start and end keep the caller's 0 when the
\* function returns without assigning them.
gather_memblock_ids_for_node(entries, opened) ==
    IF ~opened THEN [status |-> -ENOENT, start |-> 0, end |-> 0]
    ELSE IF 0 \in entries THEN [status |-> 0, start |-> 0, end |-> 0]
    ELSE IF entries = {} THEN [status |-> -ENOENT, start |-> 0, end |-> 0]
    ELSE [status |-> 0, start |-> Min(entries), end |-> Max(entries)]

\* change_numa_node_state(), lines 414-453, from the result g of the id scan.
StartBlockLoop(m, g) ==
    IF g.status < 0 THEN ChangeStateReturn(m, g.status)
    ELSE IF g.start > g.end THEN ChangeStateReturn(m, -EINVAL)
    ELSE LET m1 == [m EXCEPT !.frame.start_id = g.start, !.frame.end_id = g.end,
                             !.frame.blocks_changed = 0, !.frame.err_status = 0]
         IN  IF m.frame.new_state = NV_IOCTL_NUMA_STATUS_ONLINE
             THEN [m1 EXCEPT !.pc = "chg_read_state", !.frame.i = g.end]
             ELSE [m1 EXCEPT !.pc = "chg_read_state", !.frame.i = g.start]

\* change_numa_node_state() is entered.
EnterChangeState(m, new_state) ==
    [m EXCEPT !.pc = "chg_gather", !.frame.new_state = new_state,
              !.call.pass_state = new_state, !.call.pass_dir = {},
              !.call.attempts = <<>>, !.call.pass_done = FALSE]

\* check_memory_auto_online() never reporting that the memory was onlined
\* already: the block pass follows even when every block is online.
AutoNext_always_onlines(m, entries) ==
    LET rest == {b \in entries : b > m.frame.i}
    IN  IF rest # {} THEN [m EXCEPT !.pc = "auto_read_state", !.frame.i = Min(rest)]
        ELSE EnterChangeState([m EXCEPT !.frame.i = 0, !.frame.n_movable = 0],
                              NV_IOCTL_NUMA_STATUS_ONLINE)

\* check_memory_auto_online(), after the entry m.frame.i: the next entry of
\* the directory, or lines 733-749 and 866-876 of its caller.
AutoNext(m, entries) ==
    LET rest == {b \in entries : b > m.frame.i}
    IN  IF rest # {} THEN [m EXCEPT !.pc = "auto_read_state", !.frame.i = Min(rest)]
        ELSE LET m1 == [m EXCEPT !.frame.i = 0, !.frame.n_movable = 0]
             IN  IF m.frame.n_movable = Cardinality(entries)
                 THEN SetDriverStatus(m1)
                 ELSE EnterChangeState(m1, NV_IOCTL_NUMA_STATUS_ONLINE)

\* probe_node_memory(), the loop of lines 536-572 after a span was probed.
ProbeNext(m) ==
    LET p == m.frame.params
        n == m.frame.i + p.memblock_size
    IN  IF n + p.memblock_size <= p.numa_mem_addr + p.numa_mem_size
        THEN [m EXCEPT !.pc = "probe_write", !.frame.i = n]
        ELSE [m EXCEPT !.pc = "auto_opendir", !.frame.n_movable = 0]

\* nvNumaOnlineMemory without its own alignment check (lines 832-841): the
\* check of probe_node_memory remains.
AfterSetInProgress_probe_checks(m) ==
    LET p == m.frame.params
    IN  IF \/ ~NV_IS_ALIGNED(p.numa_mem_addr, p.memblock_size)
           \/ ~NV_IS_ALIGNED(p.numa_mem_addr + p.numa_mem_size, p.memblock_size)
        THEN OnlineFailed(m)
        ELSE IF p.numa_mem_addr + p.memblock_size <= p.numa_mem_addr + p.numa_mem_size
             THEN [m EXCEPT !.pc = "probe_write", !.frame.i = p.numa_mem_addr]
             ELSE [m EXCEPT !.pc = "auto_opendir", !.frame.n_movable = 0]

\* nvNumaOnlineMemory lines 832-851 and probe_node_memory lines 528-538,
\* once OnlineInProgress is set.
AfterSetInProgress(m) ==
    LET p == m.frame.params
    IN  IF \/ ~NV_IS_ALIGNED(p.numa_mem_addr, p.memblock_size)
           \/ ~NV_IS_ALIGNED(p.numa_mem_size, p.memblock_size)
        THEN OnlineError(m)
        ELSE IF \/ ~NV_IS_ALIGNED(p.numa_mem_addr, p.memblock_size)
                \/ ~NV_IS_ALIGNED(p.numa_mem_addr + p.numa_mem_size, p.memblock_size)
             THEN OnlineFailed(m)
        ELSE IF p.numa_mem_addr + p.memblock_size <= p.numa_mem_addr + p.numa_mem_size
             THEN [m EXCEPT !.pc = "probe_write", !.frame.i = p.numa_mem_addr]
             ELSE [m EXCEPT !.pc = "auto_opendir", !.frame.n_movable = 0]

\* nvNumaOnlineMemory with a check of the status that lets the in-progress
\* values through like the failed ones.
AfterOnlineGetInfo_accepts_in_progress(m) ==
    LET p == m.frame.params
    IN  IF p.status \in {NV_IOCTL_NUMA_STATUS_DISABLED, NV_IOCTL_NUMA_STATUS_ONLINE}
        THEN OnlineDone(m)
        ELSE IF p.nid < 0 \/ p.memblock_size = 0 \/ p.numa_mem_addr = 0
                \/ p.numa_mem_size = 0
             THEN OnlineDriverFail(m)
        ELSE [m EXCEPT !.pc = "online_set_in_progress"]

\* nvNumaOnlineMemory with a check of the status that runs the sequence again
\* on memory that is online already.
AfterOnlineGetInfo_online_again(m) ==
    LET p == m.frame.params
    IN  IF p.status = NV_IOCTL_NUMA_STATUS_DISABLED
        THEN OnlineDone(m)
        ELSE IF p.status \in {NV_IOCTL_NUMA_STATUS_ONLINE_IN_PROGRESS,
                              NV_IOCTL_NUMA_STATUS_OFFLINE_IN_PROGRESS}
             THEN OnlineDriverFail(m)
        ELSE IF p.nid < 0 \/ p.memblock_size = 0 \/ p.numa_mem_addr = 0
                \/ p.numa_mem_size = 0
             THEN OnlineDriverFail(m)
        ELSE [m EXCEPT !.pc = "online_set_in_progress"]

\* nvNumaOnlineMemory without the check of the descriptor (lines 806-821).
AfterOnlineGetInfo_unchecked(m) ==
    LET p == m.frame.params
    IN  IF p.status \in {NV_IOCTL_NUMA_STATUS_DISABLED, NV_IOCTL_NUMA_STATUS_ONLINE}
        THEN OnlineDone(m)
        ELSE IF p.status \in {NV_IOCTL_NUMA_STATUS_ONLINE_IN_PROGRESS,
                              NV_IOCTL_NUMA_STATUS_OFFLINE_IN_PROGRESS}
             THEN OnlineDriverFail(m)
        ELSE [m EXCEPT !.pc = "online_set_in_progress"]

\* nvNumaOnlineMemory with a check of the status that accepts Offline only:
\* OnlineFailed and OfflineFailed are refused like the in-progress values.
AfterOnlineGetInfo_offline_only(m) ==
    LET p == m.frame.params
    IN  IF p.status \in {NV_IOCTL_NUMA_STATUS_DISABLED, NV_IOCTL_NUMA_STATUS_ONLINE}
        THEN OnlineDone(m)
        ELSE IF p.status # NV_IOCTL_NUMA_STATUS_OFFLINE
             THEN OnlineDriverFail(m)
        ELSE IF p.nid < 0 \/ p.memblock_size = 0 \/ p.numa_mem_addr = 0
                \/ p.numa_mem_size = 0
             THEN OnlineDriverFail(m)
        ELSE [m EXCEPT !.pc = "online_set_in_progress"]

\* nvNumaOnlineMemory lines 785-823: the check of the status and of the
\* descriptor NV_ESC_NUMA_INFO reported.
AfterOnlineGetInfo(m) ==
    LET p == m.frame.params
    IN  IF p.status \in {NV_IOCTL_NUMA_STATUS_DISABLED, NV_IOCTL_NUMA_STATUS_ONLINE}
        THEN OnlineDone(m)
        ELSE IF p.status \in {NV_IOCTL_NUMA_STATUS_ONLINE_IN_PROGRESS,
                              NV_IOCTL_NUMA_STATUS_OFFLINE_IN_PROGRESS}
             THEN OnlineDriverFail(m)
        ELSE IF p.nid < 0 \/ p.memblock_size = 0 \/ p.numa_mem_addr = 0
                \/ p.numa_mem_size = 0
             THEN OnlineDriverFail(m)
        ELSE [m EXCEPT !.pc = "online_set_in_progress"]

\* offline_memory() treating a status of OnlineInProgress as it treats
\* OfflineInProgress (line 604 moved below line 606).
AfterOfflineGetInfo_rejects_online_in_progress(m) ==
    LET p == m.frame.params
    IN  IF p.status \in {NV_IOCTL_NUMA_STATUS_DISABLED, NV_IOCTL_NUMA_STATUS_OFFLINE}
        THEN OfflineMemoryReturn(m, 0)
        ELSE IF p.status \in {NV_IOCTL_NUMA_STATUS_ONLINE_IN_PROGRESS,
                               NV_IOCTL_NUMA_STATUS_OFFLINE_IN_PROGRESS}
             THEN OfflineMemoryReturn(m, 0)
        ELSE [m EXCEPT !.pc = "offline_set_in_progress"]

\* offline_memory() lines 593-613: the check of the status.  The branch of
\* OfflineInProgress leaves through driver_fail with status still 0.
AfterOfflineGetInfo(m) ==
    LET p == m.frame.params
    IN  IF p.status \in {NV_IOCTL_NUMA_STATUS_DISABLED, NV_IOCTL_NUMA_STATUS_OFFLINE}
        THEN OfflineMemoryReturn(m, 0)
        ELSE IF p.status = NV_IOCTL_NUMA_STATUS_OFFLINE_IN_PROGRESS
             THEN OfflineMemoryReturn(m, 0)
        ELSE [m EXCEPT !.pc = "offline_set_in_progress"]

\* get_gpu_numa_info(): what the ioctl copies out of the kernel.
NumaInfo(k) ==
    [ nid |-> k.nid, status |-> k.status, memblock_size |-> k.memblock_size,
      numa_mem_addr |-> k.numa_mem_addr, numa_mem_size |-> k.numa_mem_size,
      numEntries |-> k.numEntries ]

\* set_gpu_numa_status(): the kernel keeps the status when the ioctl succeeds.
SetKernelStatus(k, st, ok) == IF ok THEN [k EXCEPT !.status = st] ELSE k

\* The record of a set-status ioctl in the command's history.
NoteSetStatus(m, st, ok) ==
    [m EXCEPT !.call.writes = IF ok THEN Append(@, st) ELSE @,
              !.call.last_set_ok = ok]


(***************************************************************************)
(* Steps.  Each action is one external call with one of its outcomes,      *)
(* followed by the daemon's code up to the next external call.             *)
(***************************************************************************)
Apply(m) ==
    /\ pc' = m.pc
    /\ frame' = m.frame
    /\ idx' = m.idx
    /\ devices' = m.devices
    /\ call' = m.call
    /\ open_fds' = m.open_fds

\* The kernel side of the device the running command works on.
DevBus == devices[frame.dev].pci_info.bus
K == kern[DevBus]

\* What the launch of the daemon set up and its teardown follows.
Launch == << pid, remove_dir, parent, init_pipe, other, teardown >>

Process == << phase, num_devices, libnvidia_cfg, socket_fd, pid_fd, pipe_write_fd,
              exit_status, fs, pci_list, default_mode, Launch >>

\* set_device_mode(), line 302: nvCfgOpenPciDevice.
OpenPciDevice ==
    /\ pc = "open_pci_device"
    /\ \E success \in BOOLEAN :
         LET m    == Machine
             mode == IF frame.rollback THEN frame.old_mode ELSE frame.mode
             r    == set_device_mode(Dev(m), mode, success, "handle")
             m1   == [m EXCEPT !.devices[frame.dev] = r.device,
                               !.call.layers = Append(@, "attach"),
                               !.call.cfg_ok = Append(@, success)]
         IN  Apply(AfterSetDeviceMode(m1, r.status))
    /\ UNCHANGED << Process, kern >>

\* set_device_mode(), line 289: nvCfgCloseDevice.
CloseDevice ==
    /\ pc = "close_device"
    /\ \E success \in BOOLEAN :
         LET m    == Machine
             mode == IF frame.rollback THEN frame.old_mode ELSE frame.mode
             r    == set_device_mode(Dev(m), mode, success, NULL)
             m1   == [m EXCEPT !.devices[frame.dev] = r.device,
                               !.call.layers = Append(@, "detach"),
                               !.call.cfg_ok = Append(@, success),
                               !.call.detach_failed = @ \/ ~success]
         IN  Apply(AfterSetDeviceMode(m1, r.status))
    /\ teardown' = [teardown EXCEPT !.twice = @ \/ frame.dev = teardown.in_call]
    /\ UNCHANGED << phase, num_devices, libnvidia_cfg, socket_fd, pid_fd, pipe_write_fd,
                    exit_status, fs, pci_list, default_mode, pid, remove_dir, parent,
                    init_pipe, other, kern >>

\* The machine after an external call of the NUMA layer whose outcome was ok:
\* the command's record notes a call that failed.
Io(ok) == [Machine EXCEPT !.call.io_failed = @ \/ ~ok, !.call.steps = @ \cup {pc}]

\* nvNumaOnlineMemory line 765: get_gpu_device_file_fd.
OnlineOpen ==
    /\ pc = "online_open"
    /\ \E ok \in BOOLEAN :
         LET m  == Io(ok)
             fd == NewFd(open_fds)
         IN  IF ok
             THEN Apply([m EXCEPT !.open_fds = @ \cup {fd}, !.frame.fd = fd,
                                  !.pc = "online_get_info"])
             ELSE Apply(FinishSetDeviceNumaStatus(m, NVPD_ERR_NUMA_FAILURE))
    /\ UNCHANGED << Process, kern >>

\* nvNumaOnlineMemory line 777: get_gpu_numa_info.
OnlineGetInfo ==
    /\ pc = "online_get_info"
    /\ \E ok \in BOOLEAN :
         IF ok THEN Apply(AfterOnlineGetInfo([Io(ok) EXCEPT !.frame.params = NumaInfo(K)]))
         ELSE Apply(OnlineDriverFail(Io(ok)))
    /\ UNCHANGED << Process, kern >>

\* nvNumaOnlineMemory line 823: set_gpu_numa_status(ONLINE_IN_PROGRESS).
OnlineSetInProgress ==
    /\ pc = "online_set_in_progress"
    /\ \E ok \in BOOLEAN :
         LET m1 == NoteSetStatus(Io(ok), NV_IOCTL_NUMA_STATUS_ONLINE_IN_PROGRESS, ok)
         IN  /\ kern' = [kern EXCEPT ![DevBus] =
                           SetKernelStatus(@, NV_IOCTL_NUMA_STATUS_ONLINE_IN_PROGRESS, ok)]
             /\ IF ok THEN Apply(AfterSetInProgress(m1)) ELSE Apply(OnlineDriverFail(m1))
    /\ UNCHANGED Process

\* The kernel's side of a write to /sys/devices/system/memory/probe.
ProbeBlock(k, id) ==
    [k EXCEPT !.exists = @ \cup {id},
              !.online = IF k.auto = "offline" THEN @ ELSE @ \cup {id},
              !.normal = IF k.auto = "online_normal" THEN @ \cup {id} ELSE @]

\* probe_node_memory() stopping at a span that was probed before (without
\* lines 562-567).
ProbeStatus_already_probed_fails(write_status, accessible) ==
    IF ~accessible THEN -ENOENT
    ELSE write_status

\* probe_node_memory() lines 545-571: the status after one pass of the loop.
ProbeStatus(write_status, accessible) ==
    IF ~accessible THEN -ENOENT
    ELSE IF write_status = -EEXIST THEN 0
    ELSE write_status

\* The command's record notes the span written to the probe file and whether
\* the kernel reported it as probed already.
NoteProbe(m, start_addr, write_status) ==
    [m EXCEPT !.call.probes = Append(@, start_addr),
              !.call.already_probed = @ \/ write_status = -EEXIST]

\* probe_node_memory() line 545: the write of one span, and the access check.
ProbeWrite ==
    /\ pc = "probe_write"
    /\ \E ok \in BOOLEAN :
         LET id     == frame.i \div frame.params.memblock_size
             k1     == IF ok /\ id \notin K.exists THEN ProbeBlock(K, id) ELSE K
             wstat  == IF ~ok THEN -EIO ELSE IF id \in K.exists THEN -EEXIST ELSE 0
             status == ProbeStatus(wstat, id \in k1.exists)
         IN  /\ kern' = [kern EXCEPT ![DevBus] = k1]
             /\ IF status < 0 THEN Apply(OnlineFailed(NoteProbe(Io(ok), frame.i, wstat)))
                ELSE Apply(ProbeNext(NoteProbe(Io(ok), frame.i, wstat)))
    /\ UNCHANGED Process

\* check_memory_auto_online() line 676: opendir of the node directory.
AutoOpendir ==
    /\ pc = "auto_opendir"
    /\ \E ok \in BOOLEAN :
         LET m == [Io(ok) EXCEPT !.call.dir_at_check = NodeDir(K),
                                 !.call.movable_at_check = K.online \ K.normal,
                                 !.call.normal_at_check = K.online \cap K.normal]
         IN  IF ~ok \/ NodeDir(K) = {} THEN Apply(OnlineError(m))
             ELSE Apply([m EXCEPT !.pc = "auto_read_state",
                                  !.frame.i = Min(NodeDir(K))])
    /\ UNCHANGED << Process, kern >>

\* check_memory_auto_online() line 696: read of memory<N>/state.
AutoReadState ==
    /\ pc = "auto_read_state"
    /\ \E ok \in BOOLEAN :
         IF ~ok THEN Apply(OnlineError(Io(ok)))
         ELSE IF frame.i \in K.online
              THEN Apply([Io(ok) EXCEPT !.pc = "auto_read_zones"])
              ELSE Apply(AutoNext(Io(ok), NodeDir(K)))
    /\ UNCHANGED << Process, kern >>

\* check_memory_auto_online() counting an online block as movable whatever
\* its valid_zones reads (without lines 721-726).
AfterReadZones_any_zone(m, ok, movable_first, entries) ==
    IF ~ok THEN OnlineError(m)
    ELSE AutoNext([m EXCEPT !.frame.n_movable = @ + 1], entries)

\* check_memory_auto_online() lines 714-729, once valid_zones was read: a
\* failed read and a list that does not begin with Movable both end the
\* check with an error, and nvNumaOnlineMemory goes to its label error.
AfterReadZones(m, ok, movable_first, entries) ==
    IF ~ok \/ ~movable_first THEN OnlineError(m)
    ELSE AutoNext([m EXCEPT !.frame.n_movable = @ + 1], entries)

\* check_memory_auto_online() line 712: read of memory<N>/valid_zones.
AutoReadZones ==
    /\ pc = "auto_read_zones"
    /\ \E ok \in BOOLEAN :
         Apply(AfterReadZones(Io(ok), ok, frame.i \notin K.normal, NodeDir(K)))
    /\ UNCHANGED << Process, kern >>

\* gather_memblock_ids_for_node() line 349: opendir and the scan.
ChgGather ==
    /\ pc = "chg_gather"
    /\ \E ok \in BOOLEAN :
         Apply(StartBlockLoop([Io(ok) EXCEPT !.call.pass_dir = IF ok THEN NodeDir(K) ELSE {}],
                              gather_memblock_ids_for_node(NodeDir(K), ok)))
    /\ UNCHANGED << Process, kern >>

\* The command's record notes the block id change_memblock_state was called
\* with; past MaxAttempts ids the record is full.
NoteAttempt(m, id) ==
    [m EXCEPT !.call.attempts = IF Len(@) < MaxAttempts THEN Append(@, id) ELSE @]

\* change_memblock_state() line 285: read of memory<N>/state.
ChgReadState ==
    /\ pc = "chg_read_state"
    /\ \E ok \in BOOLEAN :
         LET cur == IF frame.i \in K.online THEN NV_IOCTL_NUMA_STATUS_ONLINE
                    ELSE NV_IOCTL_NUMA_STATUS_OFFLINE
             m   == NoteAttempt(Io(ok), frame.i)
         IN  IF frame.i \notin K.exists THEN Apply(BlockAttempted(m, -ENOENT))
             ELSE IF ~ok THEN Apply(BlockAttempted(m, -EIO))
             ELSE IF cur = frame.new_state THEN Apply(BlockAttempted(m, 0))
             ELSE Apply([m EXCEPT !.pc = "chg_write_state"])
    /\ UNCHANGED << Process, kern >>

\* The kernel's side of a write to memory<N>/state.
WriteBlockState(k, id, new_state) ==
    IF new_state = NV_IOCTL_NUMA_STATUS_ONLINE
    THEN [k EXCEPT !.online = @ \cup {id}]
    ELSE [k EXCEPT !.online = @ \ {id}, !.normal = @ \ {id}]

\* change_memblock_state() line 307: write of memory<N>/state.
ChgWriteState ==
    /\ pc = "chg_write_state"
    /\ \E ok \in BOOLEAN :
         /\ kern' = [kern EXCEPT ![DevBus] =
                       IF ok THEN WriteBlockState(@, frame.i, frame.new_state) ELSE @]
         /\ Apply(BlockAttempted(Io(ok), IF ok THEN 0 ELSE -EIO))
    /\ UNCHANGED Process

\* offline_blacklisted_pages() going on to the next address after a write
\* that failed (without lines 507-512).
AfterRetire_ignores_failure(m, ok) ==
    LET m1 == [m EXCEPT !.call.retired = Append(@, ok)]
    IN  IF m.frame.i + 1 < m.frame.params.numEntries
        THEN [m1 EXCEPT !.frame.i = @ + 1]
        ELSE [m1 EXCEPT !.pc = "online_set_online"]

\* offline_blacklisted_pages() lines 495-515 after the write for the address
\* of index m.frame.i, and lines 887-895 of nvNumaOnlineMemory.
AfterRetire(m, ok) ==
    LET m1 == [m EXCEPT !.call.retired = Append(@, ok)]
    IN  IF ~ok THEN OnlineFailed(m1)
        ELSE IF m.frame.i + 1 < m.frame.params.numEntries
             THEN [m1 EXCEPT !.frame.i = @ + 1]
             ELSE [m1 EXCEPT !.pc = "online_set_online"]

\* offline_blacklisted_pages() line 504: one write to hard_offline_page.
Retire ==
    /\ pc = "retire"
    /\ \E ok \in BOOLEAN : Apply(AfterRetire(Io(ok), ok))
    /\ UNCHANGED << Process, kern >>

\* nvNumaOnlineMemory line 895: set_gpu_numa_status(ONLINE).
OnlineSetOnline ==
    /\ pc = "online_set_online"
    /\ \E ok \in BOOLEAN :
         LET m1 == NoteSetStatus(Io(ok), NV_IOCTL_NUMA_STATUS_ONLINE, ok)
         IN  /\ kern' = [kern EXCEPT ![DevBus] =
                           SetKernelStatus(@, NV_IOCTL_NUMA_STATUS_ONLINE, ok)]
             /\ IF ok THEN Apply(OnlineDone(m1)) ELSE Apply(OnlineFailed(m1))
    /\ UNCHANGED Process

\* nvNumaOnlineMemory line 912: set_gpu_numa_status(ONLINE_FAILED).
OnlineSetFailed ==
    /\ pc = "online_set_failed"
    /\ \E ok \in BOOLEAN :
         LET m1 == NoteSetStatus(Io(ok), NV_IOCTL_NUMA_STATUS_ONLINE_FAILED, ok)
         IN  /\ kern' = [kern EXCEPT ![DevBus] =
                           SetKernelStatus(@, NV_IOCTL_NUMA_STATUS_ONLINE_FAILED, ok)]
             /\ Apply(OnlineDriverFail(m1))
    /\ UNCHANGED Process

\* offline_memory() line 586: get_gpu_numa_info.  The ioctl fails (EBADF) on
\* a descriptor the process has closed.
OfflineGetInfo ==
    /\ pc = "offline_get_info"
    /\ \E ok \in IF frame.fd \in open_fds THEN BOOLEAN ELSE {FALSE} :
         IF ok THEN Apply(AfterOfflineGetInfo([Io(ok) EXCEPT !.frame.params = NumaInfo(K),
                                                            !.call.offline_found = K.status]))
         ELSE Apply(OfflineMemoryReturn(Io(ok), -EIO))
    /\ UNCHANGED << Process, kern >>

\* offline_memory() line 613: set_gpu_numa_status(OFFLINE_IN_PROGRESS).
OfflineSetInProgress ==
    /\ pc = "offline_set_in_progress"
    /\ \E ok \in BOOLEAN :
         LET m1 == NoteSetStatus(Io(ok), NV_IOCTL_NUMA_STATUS_OFFLINE_IN_PROGRESS, ok)
         IN  /\ kern' = [kern EXCEPT ![DevBus] =
                           SetKernelStatus(@, NV_IOCTL_NUMA_STATUS_OFFLINE_IN_PROGRESS, ok)]
             /\ IF ok THEN Apply(EnterChangeState(m1, NV_IOCTL_NUMA_STATUS_OFFLINE))
                ELSE Apply(OfflineMemoryReturn(m1, -EIO))
    /\ UNCHANGED Process

\* offline_memory() line 632: set_gpu_numa_status(OFFLINE).
OfflineSetOffline ==
    /\ pc = "offline_set_offline"
    /\ \E ok \in BOOLEAN :
         LET m1 == NoteSetStatus(Io(ok), NV_IOCTL_NUMA_STATUS_OFFLINE, ok)
         IN  /\ kern' = [kern EXCEPT ![DevBus] =
                           SetKernelStatus(@, NV_IOCTL_NUMA_STATUS_OFFLINE, ok)]
             /\ Apply(OfflineMemoryReturn(m1, IF ok THEN 0 ELSE -EIO))
    /\ UNCHANGED Process

\* offline_memory() line 644: set_gpu_numa_status(OFFLINE_FAILED).
OfflineSetFailed ==
    /\ pc = "offline_set_failed"
    /\ \E ok \in BOOLEAN :
         LET m1 == NoteSetStatus(Io(ok), NV_IOCTL_NUMA_STATUS_OFFLINE_FAILED, ok)
         IN  /\ kern' = [kern EXCEPT ![DevBus] =
                           SetKernelStatus(@, NV_IOCTL_NUMA_STATUS_OFFLINE_FAILED, ok)]
             /\ Apply(OfflineMemoryReturn(m1, frame.status))
    /\ UNCHANGED Process


(***************************************************************************)
(* command_server.c: the RPC service routines.  svc_run dispatches one     *)
(* request at a time, when no command is running.                          *)
(***************************************************************************)
\* _nvpdIsClientRoot() without the test of ucred.uid: any peer whose
\* credentials can be read passes.
nvpdIsClientRoot_any_uid(cred) ==
    IF cred = "error" THEN NVPD_ERR_UNKNOWN ELSE NVPD_SUCCESS

nvpdIsClientRoot(cred) ==
    IF cred = "error" THEN NVPD_ERR_UNKNOWN
    ELSE IF cred # "root" THEN NVPD_ERR_PERMISSIONS
    ELSE NVPD_SUCCESS

\* A service routine returns the gate's result without calling the command.
Rejected(m, cmd, bus, arg, cred, result) ==
    [m EXCEPT !.pc = "svc_return",
              !.call = [StartCall(m, "rpc", cmd, bus, arg, cred,
                                  get_device(m.devices, num_devices, 0, bus, 0))
                        EXCEPT !.ret = result]]

nvpdsetpersistencemode_1_svc ==
    /\ phase = "serving" /\ pc = "idle"
    /\ \E bus \in RequestBuses, function \in RequestFunctions,
          mode \in RequestModes, cred \in PeerCreds :
         LET result == nvpdIsClientRoot(cred)
         IN  IF result # NVPD_SUCCESS
             THEN Apply(Rejected(Machine, "SetPersistenceMode", bus, mode, cred, result))
             ELSE Apply(nvPdSetDevicePersistenceMode(Machine, "rpc", 0, bus, 0, function,
                                                     mode, cred))
    /\ UNCHANGED << Process, kern >>

nvpdgetpersistencemode_1_svc ==
    /\ phase = "serving" /\ pc = "idle"
    /\ \E bus \in RequestBuses, function \in RequestFunctions, cred \in PeerCreds :
         Apply(nvPdGetDevicePersistenceMode(Machine, "rpc", 0, bus, 0, function,
                                            cred))
    /\ UNCHANGED << Process, kern >>

nvpdsetpersistencemodeonly_2_svc ==
    /\ phase = "serving" /\ pc = "idle"
    /\ \E bus \in RequestBuses, function \in RequestFunctions,
          mode \in RequestModes, cred \in PeerCreds :
         LET result == nvpdIsClientRoot(cred)
         IN  IF result # NVPD_SUCCESS
             THEN Apply(Rejected(Machine, "SetPersistenceModeOnly", bus, mode, cred, result))
             ELSE Apply(nvPdSetDevicePersistenceModeOnly(Machine, "rpc", 0, bus, 0,
                                                         function, mode, cred))
    /\ UNCHANGED << Process, kern >>

nvpdsetnumastatus_2_svc ==
    /\ phase = "serving" /\ pc = "idle"
    /\ \E bus \in RequestBuses, function \in RequestFunctions,
          status \in RequestStatuses, cred \in PeerCreds :
         LET result == nvpdIsClientRoot(cred)
         IN  IF result # NVPD_SUCCESS
             THEN Apply(Rejected(Machine, "SetNumaStatus", bus, status, cred, result))
             ELSE Apply(nvPdSetDeviceNumaStatus(Machine, "rpc", 0, bus, 0, function,
                                                status, cred))
    /\ UNCHANGED << Process, kern >>

\* A service routine returns its result to the RPC dispatcher, which replies
\* to the client and waits for the next request.
svc_return ==
    /\ phase = "serving" /\ pc = "svc_return"
    /\ Apply([Machine EXCEPT !.pc = "idle", !.call = NoCall])
    /\ UNCHANGED << Process, kern >>

(***************************************************************************)
(* nvidia-persistenced.c: main's setup sequence and shutdown_daemon.       *)
(***************************************************************************)
\* shutdown_daemon(status) is entered with pid > 0: lines 403-408.
BeginShutdown(m, sock, status) ==
    /\ phase' = "shutdown"
    /\ exit_status' = status
    /\ teardown' = [teardown EXCEPT !.entries = @ + 1]
    /\ Apply([m EXCEPT !.pc = IF sock # -1 THEN "shutdown_socket" ELSE "shutdown_loop",
                       !.frame = NoFrame, !.idx = 1,
                       !.call = [NoCall EXCEPT !.interrupted = m.call.interrupted]])

\* main's label shutdown, lines 926-928.
MainShutdown(sock) ==
    /\ BeginShutdown([Machine EXCEPT !.open_fds = @ \ {pipe_write_fd}], sock, "EXIT_FAILURE")
    /\ init_pipe' = [init_pipe EXCEPT !.write_open = FALSE]

setup_nvidia_cfg_api ==
    /\ phase = "setup" /\ pc = "setup_nvidia_cfg_api"
    /\ \E r \in {"ok", "dlopen_failed", "dlsym_failed"} :
         /\ libnvidia_cfg' = (r # "dlopen_failed")
         /\ IF r = "ok"
            THEN /\ Apply([Machine EXCEPT !.pc = "setup_devices"])
                 /\ UNCHANGED << phase, exit_status, init_pipe, teardown >>
            ELSE MainShutdown(socket_fd)
    /\ UNCHANGED << num_devices, socket_fd, pid_fd, pipe_write_fd, fs, pci_list,
                    default_mode, kern, pid, remove_dir, parent, other >>

\* setup_devices() lines 566-587: the device list and the table.
setup_devices ==
    /\ phase = "setup" /\ pc = "setup_devices"
    /\ \E r \in {"ok", "get_pci_devices_failed", "malloc_failed"} :
         IF r = "get_pci_devices_failed"
         THEN /\ MainShutdown(socket_fd)
              /\ UNCHANGED num_devices
         ELSE /\ num_devices' = Len(pci_list)
              /\ IF Len(pci_list) < 1 \/ r = "malloc_failed"
                 THEN MainShutdown(socket_fd)
                 ELSE /\ Apply([Machine EXCEPT !.pc = "setup_loop", !.idx = 1,
                                  !.devices = [i \in 1..Len(pci_list) |-> ZeroDevice]])
                      /\ UNCHANGED << phase, exit_status, init_pipe, teardown >>
    /\ UNCHANGED << libnvidia_cfg, socket_fd, pid_fd, pipe_write_fd, fs, pci_list,
                    default_mode, kern, pid, remove_dir, parent, other >>

\* setup_devices() lines 589-618: one pass of the loop, or its end.
setup_devices_loop ==
    /\ phase = "setup" /\ pc = "setup_loop"
    /\ IF idx > num_devices
       THEN /\ Apply([Machine EXCEPT !.pc = "setup_rpc", !.call = NoCall])
            /\ pci_list' = <<>>
            /\ default_mode' = NULL
       ELSE LET m1 == [Machine EXCEPT !.devices[idx] =
                         [ nv_cfg_handle |-> NULL,
                           pci_info      |-> [pci_list[idx] EXCEPT !.function = 0],
                           mode          |-> NV_PERSISTENCE_MODE_DISABLED,
                           numa_status   |-> NV_NUMA_STATUS_OFFLINE,
                           fd            |-> -1 ]]
                p  == m1.devices[idx].pci_info
            IN  /\ IF default_mode # NV_PERSISTENCE_MODE_DISABLED
                   THEN Apply(nvPdSetDevicePersistenceMode(m1, "setup", p.domain, p.bus,
                                  p.slot, 0, default_mode, "root"))
                   ELSE Apply([m1 EXCEPT !.idx = @ + 1])
                /\ UNCHANGED << pci_list, default_mode >>
    /\ UNCHANGED << phase, num_devices, libnvidia_cfg, socket_fd, pid_fd, pipe_write_fd,
                    exit_status, fs, kern, Launch >>

setup_rpc ==
    /\ phase = "setup" /\ pc = "setup_rpc"
    /\ \E r \in {"ok", "socket_failed", "rpc_failed"} :
         LET sock == NewFd(open_fds)
         IN  IF r = "socket_failed"
             THEN /\ socket_fd' = -1
                  /\ fs' = fs \ {"socket"}
                  /\ MainShutdown(-1)
             ELSE /\ socket_fd' = sock
                  /\ fs' = fs \cup {"socket"}
                  /\ IF r = "ok"
                     THEN /\ Apply([Machine EXCEPT !.pc = "init_complete",
                                                   !.open_fds = @ \cup {sock}])
                          /\ UNCHANGED << phase, exit_status, init_pipe, teardown >>
                     ELSE /\ BeginShutdown([Machine EXCEPT
                                              !.open_fds = (@ \cup {sock}) \ {pipe_write_fd}],
                                           sock, "EXIT_FAILURE")
                          /\ init_pipe' = [init_pipe EXCEPT !.write_open = FALSE]
    /\ UNCHANGED << num_devices, libnvidia_cfg, pid_fd, pipe_write_fd, pci_list,
                    default_mode, kern, pid, remove_dir, parent, other >>

\* init_complete() lines 225-227: the write of the success byte and the close
\* of the write end.
InitPipeAfterWrite(pipe, ok) ==
    [pipe EXCEPT !.byte = ok, !.write_open = FALSE]

init_complete ==
    /\ phase = "setup" /\ pc = "init_complete"
    /\ \E ok \in BOOLEAN :
         LET m1 == [Machine EXCEPT !.open_fds = @ \ {pipe_write_fd}]
         IN  /\ init_pipe' = InitPipeAfterWrite(init_pipe, ok)
             /\ IF ok
                THEN /\ phase' = "serving"
                     /\ Apply([m1 EXCEPT !.pc = "idle"])
                     /\ UNCHANGED << exit_status, teardown >>
                ELSE BeginShutdown(m1, socket_fd, "EXIT_FAILURE")
    /\ UNCHANGED << num_devices, libnvidia_cfg, socket_fd, pid_fd, pipe_write_fd, fs,
                    pci_list, default_mode, kern, pid, remove_dir, parent, other >>

\* The bus of the device whose NUMA status change is under way when the
\* signal arrives: the command has written a status to the kernel, has not
\* returned, found no status in progress when it began and saw no call fail.
\* 0 when no such change is under way.
InterruptedSequence ==
    IF /\ call.ret = NULL /\ call.dev # 0
       /\ call.writes # << >>
       /\ ~call.io_failed /\ ~call.in_progress0
    THEN call.bus
    ELSE 0

\* signal_handler(): SIGINT or SIGTERM is delivered while the daemon serves,
\* between two requests or before any external call of a running command.
\* The handler runs shutdown_daemon() and never returns to the interrupted
\* code, whose locals are lost with it.
signal_handler ==
    /\ phase = "serving"
    /\ BeginShutdown([Machine EXCEPT !.call.interrupted = InterruptedSequence],
                     socket_fd, "EXIT_SUCCESS")
    /\ UNCHANGED << num_devices, libnvidia_cfg, socket_fd, pid_fd, pipe_write_fd, fs,
                    pci_list, default_mode, kern, pid, remove_dir, parent, init_pipe, other >>

\* main() lines 921-928: svc_run returns.
svc_run_returns ==
    /\ phase = "serving" /\ pc = "idle"
    /\ MainShutdown(socket_fd)
    /\ UNCHANGED << num_devices, libnvidia_cfg, socket_fd, pid_fd, pipe_write_fd, fs,
                    pci_list, default_mode, kern, pid, remove_dir, parent, other >>

\* shutdown_daemon() lines 408-424: the socket.
shutdown_socket ==
    /\ phase = "shutdown" /\ pc = "shutdown_socket"
    /\ \E unlinked \in BOOLEAN :
         /\ fs' = IF unlinked THEN fs \ {"socket"} ELSE fs
         /\ Apply([Machine EXCEPT !.open_fds = @ \ {socket_fd}, !.pc = "shutdown_loop"])
    /\ UNCHANGED << phase, num_devices, libnvidia_cfg, socket_fd, pid_fd, pipe_write_fd,
                    exit_status, pci_list, default_mode, kern, Launch >>

\* shutdown_daemon() lines 427-439: one pass of the loop over the devices.
\* The table was freed by an earlier run of the loop, so what the loop reads
\* and frees is memory the process no longer owns: either the memory still
\* holds what the table held, or the process is killed at the access.
shutdown_devices ==
    /\ phase = "shutdown" /\ pc = "shutdown_loop"
    /\ \E intact \in IF teardown.freed /\ devices # <<>> THEN BOOLEAN ELSE {TRUE} :
         IF ~intact
         THEN /\ phase' = "exited"
              /\ exit_status' = "SIGSEGV"
              /\ init_pipe' = [init_pipe EXCEPT !.write_open = FALSE]
              /\ teardown' = [teardown EXCEPT !.stale = TRUE]
              /\ Apply([Machine EXCEPT !.pc = "exit"])
         ELSE /\ IF devices = <<>> \/ idx > num_devices
                 THEN Apply([Machine EXCEPT !.pc = "shutdown_files",
                                            !.call = [NoCall EXCEPT
                                                          !.detach_failed = call.detach_failed,
                                                          !.numa_failed =
                                                              /\ call.caller = "shutdown"
                                                              /\ call.numa_failed,
                                                          !.interrupted = call.interrupted]])
                 ELSE IF devices[idx].nv_cfg_handle # NULL
                      THEN LET p == devices[idx].pci_info
                           IN  Apply(nvPdSetDevicePersistenceMode(Machine, "shutdown",
                                         p.domain, p.bus, p.slot, 0,
                                         NV_PERSISTENCE_MODE_DISABLED, "root"))
                      ELSE Apply([Machine EXCEPT !.idx = @ + 1])
              /\ teardown' = [teardown EXCEPT
                                !.stale = @ \/ (teardown.freed /\ devices # <<>>),
                                !.freed = @ \/ (devices # <<>> /\ idx > num_devices)]
              /\ UNCHANGED << phase, exit_status, init_pipe >>
    /\ UNCHANGED << num_devices, libnvidia_cfg, socket_fd, pid_fd, pipe_write_fd, fs,
                    pci_list, default_mode, kern, pid, remove_dir, parent, other >>

\* rmdir() removes a directory that is empty.
Rmdir(files) == IF files \cap {"pidfile", "socket"} = {} THEN files \ {"dir"} ELSE files

\* shutdown_daemon() lines 448-485: the runtime files left after the unlink
\* of the PID file (which removes it or fails) and the rmdir.
RemoveRuntimeFiles(files, pidfd, rmdir, unlinked) ==
    LET f1 == IF pidfd # -1 /\ unlinked THEN files \ {"pidfile"} ELSE files
    IN  IF rmdir THEN Rmdir(f1) ELSE f1

\* shutdown_daemon() lines 442-494: the library, the PID file, exit.
shutdown_files ==
    /\ phase = "shutdown" /\ pc = "shutdown_files"
    /\ \E unlinked \in BOOLEAN :
         /\ fs' = RemoveRuntimeFiles(fs, pid_fd, remove_dir, unlinked)
         /\ libnvidia_cfg' = FALSE
         /\ phase' = "exited"
         /\ init_pipe' = [init_pipe EXCEPT !.write_open = FALSE]
         /\ Apply([Machine EXCEPT !.pc = "exit",
                                  !.open_fds = IF pid_fd # -1 THEN @ \ {pid_fd} ELSE @])
    /\ UNCHANGED << num_devices, socket_fd, pid_fd, pipe_write_fd, exit_status, pci_list,
                    default_mode, kern, pid, remove_dir, parent, other, teardown >>

\* No other instance of the daemon runs or is about to.
NoOther == [runs |-> "no", files |-> {}, refused |-> FALSE]

\* shutdown_daemon() has not been entered.
NoTeardown ==
    [ entries |-> 0,       \* times shutdown_daemon() was entered
      freed   |-> FALSE,   \* free(devices) was called
      stale   |-> FALSE,   \* the device table was read or freed after that
      in_call |-> 0,       \* device whose nvCfgCloseDevice call a signal cut into
      twice   |-> FALSE ]  \* nvCfgCloseDevice was called again for that device

(***************************************************************************)
(* The daemon after daemonize() returned to main.                          *)
(***************************************************************************)
Init ==
    /\ phase = "setup"
    /\ pc = "setup_nvidia_cfg_api"
    /\ frame = NoFrame
    /\ idx = 0
    /\ devices = <<>>
    /\ num_devices = 0
    /\ libnvidia_cfg = FALSE
    /\ socket_fd = -1
    /\ pid_fd = 0
    /\ pipe_write_fd = 1
    /\ exit_status = NULL
    /\ open_fds = {0, 1}
    /\ \E h \in Hosts :
         /\ pci_list = h.pci_list
         /\ kern = [b \in {GpuA.bus, GpuB.bus} |->
                      IF b = GpuA.bus THEN h.profile ELSE NoNumaProfile]
    /\ fs = {"dir", "pidfile"}
    /\ default_mode \in {NV_PERSISTENCE_MODE_DISABLED, NV_PERSISTENCE_MODE_ENABLED}
    /\ call = NoCall
    /\ pid = 1
    /\ remove_dir = FALSE
    /\ parent = "waiting"
    /\ init_pipe = [byte |-> FALSE, write_open |-> TRUE]
    /\ other = NoOther
    /\ teardown = NoTeardown

Next ==
    \/ setup_nvidia_cfg_api
    \/ setup_devices
    \/ setup_devices_loop
    \/ setup_rpc
    \/ init_complete
    \/ nvpdsetpersistencemode_1_svc
    \/ nvpdgetpersistencemode_1_svc
    \/ nvpdsetpersistencemodeonly_2_svc
    \/ nvpdsetnumastatus_2_svc
    \/ svc_return
    \/ OpenPciDevice
    \/ CloseDevice
    \/ OnlineOpen
    \/ OnlineGetInfo
    \/ OnlineSetInProgress
    \/ ProbeWrite
    \/ AutoOpendir
    \/ AutoReadState
    \/ AutoReadZones
    \/ ChgGather
    \/ ChgReadState
    \/ ChgWriteState
    \/ Retire
    \/ OnlineSetOnline
    \/ OnlineSetFailed
    \/ OfflineGetInfo
    \/ OfflineSetInProgress
    \/ OfflineSetOffline
    \/ OfflineSetFailed
    \/ signal_handler
    \/ svc_run_returns
    \/ shutdown_socket
    \/ shutdown_devices
    \/ shutdown_files

Spec == Init /\ [][Next]_vars

\* A step of shutdown_daemon(): the teardown is straight-line code of a
\* running process, so the call it is waiting for returns and the next
\* statement runs.
TeardownStep == phase = "shutdown" /\ Next

LiveSpec == Spec /\ WF_vars(TeardownStep)

(***************************************************************************)
(* The launch: main() from its first line, the process that forks and      *)
(* waits on the init pipe, the child's daemonize(), signals delivered from *)
(* the moment the handler is installed, and a second instance of the       *)
(* daemon that owns the PID-file lock.                                     *)
(***************************************************************************)
\* wait_for_init_complete() reporting success when the pipe was closed with
\* nothing written (without the test of line 256).
wait_for_init_complete_accepts_eof(bytes, success) ==
    IF bytes < 0 THEN "NVPD_ERR_IO"
    ELSE NVPD_SUCCESS

\* wait_for_init_complete() lines 246-264, from what read() returned and the
\* byte it stored.
wait_for_init_complete(bytes, success) ==
    IF bytes < 0 THEN "NVPD_ERR_IO"
    ELSE IF bytes # 1 \/ ~success THEN NVPD_ERR_UNKNOWN
    ELSE NVPD_SUCCESS

\* daemonize() keeping the descriptor of a PID file it could not lock
\* (line 867 moved above line 858).
LockPidFile_keeps_fd(fd, locked) == fd

\* daemonize() lines 858-867: the value of pid_fd after lockf().
LockPidFile(fd, locked) == IF locked THEN fd ELSE -1

\* daemonize() line 876 and shutdown_daemon() line 403: the error path of
\* daemonize closes the pipe and runs the teardown, which exits at once while
\* pid is still 0.
DaemonizeShutdown(m) ==
    /\ init_pipe' = [init_pipe EXCEPT !.write_open = FALSE]
    /\ exit_status' = "EXIT_FAILURE"
    /\ IF pid <= 0
       THEN /\ phase' = "exited"
            /\ Apply([m EXCEPT !.pc = "exit", !.frame = NoFrame,
                               !.open_fds = @ \ {pipe_write_fd}])
            /\ UNCHANGED teardown
       ELSE /\ phase' = "shutdown"
            /\ teardown' = [teardown EXCEPT !.entries = @ + 1]
            /\ Apply([m EXCEPT !.pc = "shutdown_loop", !.frame = NoFrame, !.idx = 1,
                               !.open_fds = @ \ {pipe_write_fd}])

\* daemonize() lines 718-746: pipe() and fork().  When either fails the
\* process that was started exits with failure and there is no child.
daemonize_fork ==
    /\ phase = "launch" /\ pc = "fork"
    /\ \E r \in {"ok", "pipe_failed", "fork_failed"} :
         IF r = "ok"
         THEN /\ parent' = "waiting"
              /\ phase' = "daemonize"
              /\ pipe_write_fd' = 1
              /\ init_pipe' = [byte |-> FALSE, write_open |-> TRUE]
              /\ Apply([Machine EXCEPT !.pc = "setsid", !.open_fds = {1}])
         ELSE /\ parent' = "EXIT_FAILURE"
              /\ Apply([Machine EXCEPT !.pc = "exit"])
              /\ UNCHANGED << phase, pipe_write_fd, init_pipe >>
    /\ UNCHANGED << num_devices, libnvidia_cfg, socket_fd, pid_fd, exit_status, fs,
                    pci_list, default_mode, kern, pid, remove_dir, other, teardown >>

\* daemonize() lines 766-774: setsid() and getpid().
daemonize_setsid ==
    /\ phase = "daemonize" /\ pc = "setsid"
    /\ \E ok \in BOOLEAN :
         IF ok
         THEN /\ pid' = 1
              /\ Apply([Machine EXCEPT !.pc = "mkdir"])
              /\ UNCHANGED << phase, exit_status, init_pipe, teardown >>
         ELSE /\ DaemonizeShutdown(Machine)
              /\ UNCHANGED pid
    /\ UNCHANGED << num_devices, libnvidia_cfg, socket_fd, pid_fd, pipe_write_fd, fs,
                    pci_list, default_mode, kern, remove_dir, parent, other >>

\* daemonize() lines 794-808: mkdir() of the runtime directory.
daemonize_mkdir ==
    /\ phase = "daemonize" /\ pc = "mkdir"
    /\ \E ok \in BOOLEAN :
         LET created == ok /\ "dir" \notin fs
         IN  /\ fs' = IF created THEN fs \cup {"dir"} ELSE fs
             /\ remove_dir' = created
    /\ Apply([Machine EXCEPT !.pc = "drop_privileges"])
    /\ UNCHANGED << phase, num_devices, libnvidia_cfg, socket_fd, pid_fd, pipe_write_fd,
                    exit_status, pci_list, default_mode, kern, pid, parent, init_pipe,
                    other, teardown >>

\* daemonize() lines 814-833: chown(), setgid() and setuid() when the daemon
\* is to run as another user.
daemonize_drop_privileges ==
    /\ phase = "daemonize" /\ pc = "drop_privileges"
    /\ \E r \in {"same_user", "ok", "failed"} :
         IF r = "failed"
         THEN DaemonizeShutdown(Machine)
         ELSE /\ Apply([Machine EXCEPT !.pc = "access"])
              /\ UNCHANGED << phase, exit_status, init_pipe, teardown >>
    /\ UNCHANGED << num_devices, libnvidia_cfg, socket_fd, pid_fd, pipe_write_fd, fs,
                    pci_list, default_mode, kern, pid, remove_dir, parent, other >>

\* daemonize() lines 838-842: access() to the runtime directory.
daemonize_access ==
    /\ phase = "daemonize" /\ pc = "access"
    /\ \E ok \in BOOLEAN :
         IF ok /\ "dir" \in fs
         THEN /\ Apply([Machine EXCEPT !.pc = "open_pid"])
              /\ UNCHANGED << phase, exit_status, init_pipe, teardown >>
         ELSE DaemonizeShutdown(Machine)
    /\ UNCHANGED << num_devices, libnvidia_cfg, socket_fd, pid_fd, pipe_write_fd, fs,
                    pci_list, default_mode, kern, pid, remove_dir, parent, other >>

\* daemonize() lines 848-852: open() of the PID file with O_CREAT.
daemonize_open_pid ==
    /\ phase = "daemonize" /\ pc = "open_pid"
    /\ \E ok \in BOOLEAN :
         LET fd == NewFd(open_fds)
         IN  IF ok /\ "dir" \in fs
             THEN /\ fs' = fs \cup {"pidfile"}
                  /\ Apply([Machine EXCEPT !.pc = "lock_pid", !.frame.fd = fd,
                                           !.open_fds = @ \cup {fd}])
                  /\ UNCHANGED << phase, exit_status, init_pipe, teardown >>
             ELSE /\ DaemonizeShutdown(Machine)
                  /\ UNCHANGED fs
    /\ UNCHANGED << num_devices, libnvidia_cfg, socket_fd, pid_fd, pipe_write_fd,
                    pci_list, default_mode, kern, pid, remove_dir, parent, other >>

\* daemonize() lines 855-867: lockf(F_TLOCK), which fails when another
\* process holds the lock.  Once this process holds it, an instance that
\* was about to start is not followed any further.
daemonize_lock_pid ==
    /\ phase = "daemonize" /\ pc = "lock_pid"
    /\ \E ok \in BOOLEAN :
         LET locked == ok /\ other.runs # "yes"
         IN  /\ pid_fd' = LockPidFile(frame.fd, locked)
             /\ other' = IF locked THEN NoOther ELSE [other EXCEPT !.refused = TRUE]
             /\ IF locked
                THEN /\ Apply([Machine EXCEPT !.pc = "write_pid", !.frame = NoFrame])
                     /\ UNCHANGED << phase, exit_status, init_pipe, teardown >>
                ELSE DaemonizeShutdown([Machine EXCEPT !.open_fds = @ \ {frame.fd}])
    /\ UNCHANGED << num_devices, libnvidia_cfg, socket_fd, pipe_write_fd, fs,
                    pci_list, default_mode, kern, pid, remove_dir, parent >>

\* daemonize() lines 870-877: the write of the process id, and the return
\* to main.
daemonize_write_pid ==
    /\ phase = "daemonize" /\ pc = "write_pid"
    /\ \E ok \in BOOLEAN :
         IF ok
         THEN /\ phase' = "setup"
              /\ Apply([Machine EXCEPT !.pc = "setup_nvidia_cfg_api"])
              /\ UNCHANGED << exit_status, init_pipe, teardown >>
         ELSE DaemonizeShutdown(Machine)
    /\ UNCHANGED << num_devices, libnvidia_cfg, socket_fd, pid_fd, pipe_write_fd, fs,
                    pci_list, default_mode, kern, pid, remove_dir, parent, other >>

\* daemonize() lines 731-746, in the process that called fork(): read() on
\* the init pipe returns once a byte is there or every write end is closed,
\* and the process exits with the status made from it.
ParentExit ==
    /\ parent = "waiting"
    /\ init_pipe.byte \/ ~init_pipe.write_open
    /\ \E failed \in BOOLEAN :
         LET bytes  == IF failed THEN -1 ELSE IF init_pipe.byte THEN 1 ELSE 0
             status == wait_for_init_complete(bytes, bytes = 1)
         IN  parent' = IF status = NVPD_SUCCESS THEN "EXIT_SUCCESS" ELSE "EXIT_FAILURE"
    /\ UNCHANGED << phase, pc, frame, idx, devices, num_devices, libnvidia_cfg, socket_fd,
                    pid_fd, pipe_write_fd, exit_status, open_fds, kern, fs, pci_list,
                    default_mode, call, pid, remove_dir, init_pipe, other, teardown >>

\* Another instance of the daemon, started at about the same time, creates
\* what it needs of the runtime files and takes the PID-file lock before
\* this one tries to.
OtherInstanceLocks ==
    /\ other.runs = "later"
    /\ phase \in {"launch", "daemonize"} /\ pc # "exit"
    /\ \E files \in { {"dir", "pidfile"}, {"dir", "pidfile", "socket"} } :
         /\ other' = [other EXCEPT !.runs = "yes", !.files = files]
         /\ fs' = fs \cup files
    /\ UNCHANGED << phase, pc, frame, idx, devices, num_devices, libnvidia_cfg, socket_fd,
                    pid_fd, pipe_write_fd, exit_status, open_fds, kern, pci_list,
                    default_mode, call, pid, remove_dir, parent, init_pipe, teardown >>

\* signal_handler() before the daemon serves: the handler is installed in
\* daemonize() (lines 760-761), so SIGINT or SIGTERM during daemonize() or the
\* setup runs shutdown_daemon(EXIT_SUCCESS), which exits at once while pid is 0.
signal_handler_early ==
    /\ phase \in {"daemonize", "setup"}
    /\ exit_status' = "EXIT_SUCCESS"
    /\ IF pid <= 0
       THEN /\ phase' = "exited"
            /\ init_pipe' = [init_pipe EXCEPT !.write_open = FALSE]
            /\ Apply([Machine EXCEPT !.pc = "exit", !.frame = NoFrame])
            /\ UNCHANGED teardown
       ELSE /\ phase' = "shutdown"
            /\ teardown' = [teardown EXCEPT !.entries = @ + 1]
            /\ Apply([Machine EXCEPT
                        !.pc = IF socket_fd # -1 THEN "shutdown_socket" ELSE "shutdown_loop",
                        !.frame = NoFrame, !.idx = 1, !.call = NoCall])
            /\ UNCHANGED init_pipe
    /\ UNCHANGED << num_devices, libnvidia_cfg, socket_fd, pid_fd, pipe_write_fd, fs,
                    pci_list, default_mode, kern, pid, remove_dir, parent, other >>

\* signal_handler() while shutdown_daemon() runs.  The handler is installed
\* with an empty sa_mask (lines 711-713), so the other of SIGINT and SIGTERM,
\* or either of them when main started the teardown, is delivered in the
\* middle of it and shutdown_daemon() is entered again from its first line.
\* When the signal falls into a call of nvCfgCloseDevice, that call was made
\* and the record of the device still holds the handle.
signal_handler_reentered ==
    /\ phase = "shutdown"
    /\ teardown.entries < MaxTeardowns
    /\ \E in_close \in IF pc = "close_device" THEN BOOLEAN ELSE {FALSE} :
         teardown' = [teardown EXCEPT !.entries = @ + 1,
                                      !.in_call = IF in_close THEN frame.dev ELSE @]
    /\ exit_status' = "EXIT_SUCCESS"
    /\ Apply([Machine EXCEPT
                !.pc = IF socket_fd # -1 THEN "shutdown_socket" ELSE "shutdown_loop",
                !.frame = NoFrame, !.idx = 1,
                !.call = [NoCall EXCEPT !.interrupted = call.interrupted]])
    /\ UNCHANGED << phase, num_devices, libnvidia_cfg, socket_fd, pid_fd, pipe_write_fd, fs,
                    pci_list, default_mode, kern, pid, remove_dir, parent, init_pipe, other >>

\* The other instance holds the PID-file lock and owns files.
OtherRuns(files) == [NoOther EXCEPT !.runs = "yes", !.files = files]

\* The launches that are followed, all with persistence mode enabled at
\* startup.  On a machine with two GPUs without device NUMA memory: the
\* runtime directory exists or not, and another instance of the daemon holds
\* the PID-file lock, is about to take it, or there is none.  On a machine
\* with a GPU with device NUMA memory: the directory exists and there is no
\* other instance.
Launches ==
    { [pci_list |-> <<GpuA, GpuB>>, profile |-> NoNumaProfile,
       default_mode |-> NV_PERSISTENCE_MODE_ENABLED, fs |-> f, other |-> NoOther] :
          f \in {{}, {"dir"}} }
    \cup
    { [pci_list |-> <<GpuA, GpuB>>, profile |-> NoNumaProfile,
       default_mode |-> NV_PERSISTENCE_MODE_ENABLED, fs |-> {},
       other |-> [NoOther EXCEPT !.runs = "later"]] }
    \cup
    { [pci_list |-> <<GpuA, GpuB>>, profile |-> NoNumaProfile,
       default_mode |-> NV_PERSISTENCE_MODE_ENABLED, fs |-> f, other |-> OtherRuns(f)] :
          f \in { {"dir", "pidfile"}, {"dir", "pidfile", "socket"} } }
    \cup
    { [pci_list |-> <<GpuA>>,
       profile  |-> KernelProfile(1, 2, 2, 2 * MaxBlocks, MaxBlacklist, BlockIds, "offline",
                                  NV_IOCTL_NUMA_STATUS_OFFLINE),
       default_mode |-> NV_PERSISTENCE_MODE_ENABLED, fs |-> {"dir"}, other |-> NoOther] }

\* main() is entered.
LaunchInit ==
    /\ phase = "launch"
    /\ pc = "fork"
    /\ frame = NoFrame
    /\ idx = 0
    /\ devices = <<>>
    /\ num_devices = 0
    /\ libnvidia_cfg = FALSE
    /\ socket_fd = -1
    /\ pid_fd = -1
    /\ pipe_write_fd = -1
    /\ exit_status = NULL
    /\ open_fds = {}
    /\ \E l \in Launches :
         /\ pci_list = l.pci_list
         /\ kern = [b \in {GpuA.bus, GpuB.bus} |->
                      IF b = GpuA.bus THEN l.profile ELSE NoNumaProfile]
         /\ default_mode = l.default_mode
         /\ fs = l.fs
         /\ other = l.other
    /\ call = NoCall
    /\ pid = 0
    /\ remove_dir = FALSE
    /\ parent = "none"
    /\ init_pipe = [byte |-> FALSE, write_open |-> FALSE]
    /\ teardown = NoTeardown

LaunchNext ==
    \/ daemonize_fork
    \/ daemonize_setsid
    \/ daemonize_mkdir
    \/ daemonize_drop_privileges
    \/ daemonize_access
    \/ daemonize_open_pid
    \/ daemonize_lock_pid
    \/ daemonize_write_pid
    \/ ParentExit
    \/ OtherInstanceLocks
    \/ signal_handler_early
    \/ signal_handler_reentered
    \/ Next

LaunchSpec == LaunchInit /\ [][LaunchNext]_vars


(***************************************************************************)
(* Properties of the commands.                                             *)
(***************************************************************************)
\* A command has returned and its caller has not yet taken the result.
Returned == call.ret # NULL

\* svc_run waits for a request.
Idle == phase = "serving" /\ pc = "idle"

InProgress ==
    {NV_IOCTL_NUMA_STATUS_ONLINE_IN_PROGRESS, NV_IOCTL_NUMA_STATUS_OFFLINE_IN_PROGRESS}
CfgOps  == {"attach", "detach"}
NumaOps == {"online", "offline"}
Range(q) == {q[i] : i \in 1..Len(q)}

\* The records at domain 0, bus, slot 0, and the first of them.
Matches(bus) ==
    { i \in 1..Len(devices) : devices[i].pci_info.domain = 0
                              /\ devices[i].pci_info.bus = bus
                              /\ devices[i].pci_info.slot = 0 }
FirstMatch(bus) == CHOOSE i \in Matches(bus) : \A j \in Matches(bus) : i <= j

\* The NUMA status nvPdSetDevicePersistenceMode derives from a mode.
Derived(mode) ==
    IF mode = NV_PERSISTENCE_MODE_ENABLED THEN NV_NUMA_STATUS_ONLINE
    ELSE NV_NUMA_STATUS_OFFLINE

\* r is what a command leaves when it returns success at once and has done
\* nothing: no library call, no NUMA operation, no field changed.
NoOp(r) ==
    /\ r.pc = "svc_return"
    /\ r.call.ret = NVPD_SUCCESS
    /\ r.call.layers = <<>>
    /\ r.call.writes = <<>>
    /\ r.devices = devices
    /\ r.open_fds = open_fds

\* C1 as stated: whenever a command has returned, every device whose stored
\* numa_status is Online has stored mode Enabled.
C1_OnlineImpliesEnabled ==
    Returned =>
        \A i \in 1..Len(devices) :
            devices[i].numa_status = NV_NUMA_STATUS_ONLINE
                => devices[i].mode = NV_PERSISTENCE_MODE_ENABLED

\* C1, amended: whenever SetPersistenceMode has returned success, the device
\* it named has stored numa_status Online exactly if its stored mode is
\* Enabled.  (SetPersistenceModeOnly and SetNumaStatus each change one of the
\* two fields without looking at the other.)
C1_OnlineIffEnabledAfterSetPersistenceMode ==
    (Returned /\ call.cmd = "SetPersistenceMode" /\ call.ret = NVPD_SUCCESS) =>
        (devices[call.dev].numa_status = NV_NUMA_STATUS_ONLINE
            <=> devices[call.dev].mode = NV_PERSISTENCE_MODE_ENABLED)

\* SetPersistenceMode(Enabled) attached a device and onlined its memory.
C1_Witness ==
    /\ Returned /\ call.cmd = "SetPersistenceMode" /\ call.ret = NVPD_SUCCESS
    /\ call.layers = <<"attach", "online">>
    /\ NV_IOCTL_NUMA_STATUS_ONLINE \in Range(call.writes)
    /\ devices[call.dev].numa_status = NV_NUMA_STATUS_ONLINE
    /\ devices[call.dev].mode = NV_PERSISTENCE_MODE_ENABLED

\* C2: whenever no command is running, a device holds an attachment handle
\* (nv_cfg_handle is not NULL) if and only if its stored mode is Enabled.
C2_HandleIffEnabled ==
    frame.cmd = "none" =>
        \A i \in 1..Len(devices) :
            (devices[i].nv_cfg_handle # NULL)
                <=> (devices[i].mode = NV_PERSISTENCE_MODE_ENABLED)

\* A command returned after its compensating detach failed: the device keeps
\* the handle and the mode Enabled.
C2_Witness ==
    /\ frame.cmd = "none" /\ Returned
    /\ call.layers = <<"attach", "online", "detach">>
    /\ call.cfg_ok = <<TRUE, FALSE>>
    /\ devices[call.dev].nv_cfg_handle # NULL
    /\ devices[call.dev].mode = NV_PERSISTENCE_MODE_ENABLED

C4_ShortfallFailsOnlining ==
    (Returned /\ call.shortfall) =>
        /\ call.ret # NVPD_SUCCESS
        /\ NV_IOCTL_NUMA_STATUS_ONLINE \notin Range(call.writes)
        /\ call.last_set_ok => kern[call.bus].status = NV_IOCTL_NUMA_STATUS_ONLINE_FAILED

\* C5 as stated: a SetPersistenceMode, SetPersistenceModeOnly or SetNumaStatus
\* request whose mode (status) equals the device's stored mode (status) returns
\* success and calls neither libnvidia-cfg nor any NUMA operation.
C5_EqualRequestIsNoOp ==
    Idle =>
        \A bus \in RequestBuses, function \in RequestFunctions :
            Matches(bus) # {} =>
                LET d == devices[FirstMatch(bus)]
                IN  /\ NoOp(nvPdSetDevicePersistenceMode(Machine, "rpc", 0, bus, 0,
                                                         function, d.mode, "root"))
                    /\ NoOp(nvPdSetDevicePersistenceModeOnly(Machine, "rpc", 0, bus, 0,
                                                             function, d.mode, "root"))
                    /\ NoOp(nvPdSetDeviceNumaStatus(Machine, "rpc", 0, bus, 0,
                                                    function, d.numa_status, "root"))

\* C5, amended: SetPersistenceModeOnly with the stored mode and SetNumaStatus
\* with the stored status return success and do nothing; SetPersistenceMode
\* with the stored mode does so if the stored numa_status is the one the mode
\* derives, and in no case calls libnvidia-cfg.
C5_EqualRequestIsNoOpWhenNumaMatches ==
    /\ Idle =>
        \A bus \in RequestBuses, function \in RequestFunctions :
            Matches(bus) # {} =>
                LET d == devices[FirstMatch(bus)]
                IN  /\ d.numa_status = Derived(d.mode) =>
                           NoOp(nvPdSetDevicePersistenceMode(Machine, "rpc", 0, bus, 0,
                                                             function, d.mode, "root"))
                    /\ NoOp(nvPdSetDevicePersistenceModeOnly(Machine, "rpc", 0, bus, 0,
                                                             function, d.mode, "root"))
                    /\ NoOp(nvPdSetDeviceNumaStatus(Machine, "rpc", 0, bus, 0,
                                                    function, d.numa_status, "root"))
    /\ (call.cmd = "SetPersistenceMode" /\ call.dev # 0 /\ call.arg = call.mode0)
           => Range(call.layers) \cap CfgOps = {}

\* SetPersistenceMode(Enabled) for a device that is Enabled and Online
\* returned success without a call.
C5_Witness ==
    /\ Returned /\ call.caller = "rpc" /\ call.cmd = "SetPersistenceMode"
    /\ call.dev # 0 /\ call.arg = NV_PERSISTENCE_MODE_ENABLED
    /\ call.mode0 = NV_PERSISTENCE_MODE_ENABLED
    /\ devices[call.dev].numa_status = NV_NUMA_STATUS_ONLINE
    /\ call.ret = NVPD_SUCCESS /\ call.layers = <<>>

\* The same SetPersistenceMode request, issued again right after the one that
\* has just returned.
SecondCall ==
    nvPdSetDevicePersistenceMode([Machine EXCEPT !.pc = "idle", !.call = NoCall],
                                 "rpc", 0, call.bus, 0, 0, call.arg, "root")

FirstCallReturned ==
    /\ phase = "serving" /\ pc = "svc_return"
    /\ call.cmd = "SetPersistenceMode" /\ call.cred = "root" /\ call.dev # 0

\* C6 as stated: SetPersistenceMode issued twice in a row with the same mode
\* on a known device returns success both times, and the second call does
\* nothing.
C6_TwiceSucceedsTwice ==
    FirstCallReturned => (call.ret = NVPD_SUCCESS /\ NoOp(SecondCall))

\* C6, amended: if SetPersistenceMode on a known device returns success, the
\* same request issued again returns success, calls neither libnvidia-cfg nor
\* a NUMA operation and changes no device field.
C6_SecondCallIsNoOpAfterSuccess ==
    (FirstCallReturned /\ call.ret = NVPD_SUCCESS) => NoOp(SecondCall)

\* SetPersistenceMode(Disabled) detached a device and offlined its memory.
C6_Witness ==
    /\ FirstCallReturned /\ call.ret = NVPD_SUCCESS
    /\ call.arg = NV_PERSISTENCE_MODE_DISABLED
    /\ call.layers = <<"detach", "offline">>

\* What the four commands leave for a request naming bus.
Results(bus, function, mode, status) ==
    { nvPdSetDevicePersistenceMode(Machine, "rpc", 0, bus, 0, function, mode, "root"),
      nvPdSetDevicePersistenceModeOnly(Machine, "rpc", 0, bus, 0, function, mode, "root"),
      nvPdSetDeviceNumaStatus(Machine, "rpc", 0, bus, 0, function, status, "root"),
      nvPdGetDevicePersistenceMode(Machine, "rpc", 0, bus, 0, function, "root") }

\* C7: each command returns DeviceNotFound when no record has the request's
\* domain, bus and slot, and then changes no field and calls nothing; when
\* records match it works on the first of them, whatever the function
\* argument.
C7_DeviceNotFound ==
    Idle =>
        \A bus \in RequestBuses, function \in RequestFunctions,
           mode \in RequestModes, status \in RequestStatuses :
            /\ Matches(bus) = {} =>
                   \A r \in Results(bus, function, mode, status) :
                       /\ r.pc = "svc_return"
                       /\ r.call.ret = NVPD_ERR_DEVICE_NOT_FOUND
                       /\ r.call.layers = <<>> /\ r.call.writes = <<>>
                       /\ r.devices = devices /\ r.open_fds = open_fds
            /\ Matches(bus) # {} =>
                   \A r \in Results(bus, function, mode, status) :
                       /\ r.call.dev = FirstMatch(bus)
                       /\ r.call.ret # NVPD_ERR_DEVICE_NOT_FOUND
            /\ Results(bus, function, mode, status) = Results(bus, 0, mode, status)

\* A command was sent to bus 3, where no GPU is, and returned DeviceNotFound.
C7_Witness ==
    /\ Returned /\ call.cred = "root" /\ call.cmd = "SetNumaStatus"
    /\ Matches(call.bus) = {}
    /\ call.dev = 0 /\ call.ret = NVPD_ERR_DEVICE_NOT_FOUND

\* C8: in SetPersistenceMode no NUMA operation comes before the call of
\* libnvidia-cfg (attach then online, detach then offline); when that call
\* fails no NUMA operation follows and the command returns its error.
C8_AttachmentBeforeNuma ==
    (call.cmd = "SetPersistenceMode" /\ call.dev # 0) =>
        LET L == call.layers
        IN  /\ \A i \in 1..Len(L) :
                 L[i] \in NumaOps =>
                     \/ i = 1 /\ call.mode0 = call.arg
                     \/ i = 2 /\ call.cfg_ok[1]
                          /\ << L[1], L[2] >> \in { <<"attach", "online">>,
                                                    <<"detach", "offline">> }
            /\ (Len(L) >= 1 /\ L[1] \in CfgOps /\ ~call.cfg_ok[1]) =>
                   /\ Len(L) = 1
                   /\ call.numa_ret = NULL
                   /\ Returned => call.ret = NVPD_ERR_DRIVER

\* The attach of a SetPersistenceMode(Enabled) failed and the command returned.
C8_Witness ==
    /\ Returned /\ call.cmd = "SetPersistenceMode"
    /\ call.layers = <<"attach">> /\ call.cfg_ok = <<FALSE>>
    /\ call.ret = NVPD_ERR_DRIVER

\* C9: when SetPersistenceMode has changed the mode and the NUMA step then
\* fails, one compensating libnvidia-cfg call back to the old mode is made;
\* if it succeeds the stored mode is the old one again, and in either case
\* the command returns the NUMA step's status.
C9_OneCompensatingCall ==
    (/\ Returned /\ call.cmd = "SetPersistenceMode" /\ call.dev # 0
     /\ Len(call.cfg_ok) >= 1 /\ call.cfg_ok[1]
     /\ call.numa_ret \notin {NULL, NVPD_SUCCESS})
        => /\ Len(call.layers) = 3 /\ Len(call.cfg_ok) = 2
           /\ call.layers[3] = (IF call.mode0 = NV_PERSISTENCE_MODE_ENABLED
                                THEN "attach" ELSE "detach")
           /\ call.cfg_ok[2] => devices[call.dev].mode = call.mode0
           /\ call.ret = call.numa_ret

\* Onlining failed after an attach, and the compensating detach succeeded.
C9_Witness ==
    /\ Returned /\ call.cmd = "SetPersistenceMode"
    /\ call.layers = <<"attach", "online", "detach">>
    /\ call.cfg_ok = <<TRUE, TRUE>>
    /\ call.ret = NVPD_ERR_NUMA_FAILURE
    /\ devices[call.dev].mode = NV_PERSISTENCE_MODE_DISABLED

\* C10: no step of a SetPersistenceModeOnly command changes a device's stored
\* numa_status or NUMA descriptor or the kernel's NUMA state, opens or closes
\* a descriptor, or starts a NUMA operation.
C10_ModeOnlyLeavesNumaAlone ==
    [][ call'.cmd = "SetPersistenceModeOnly" =>
            /\ \A i \in 1..Len(devices) :
                   /\ devices'[i].numa_status = devices[i].numa_status
                   /\ devices'[i].fd = devices[i].fd
            /\ kern' = kern
            /\ open_fds' = open_fds
            /\ call'.writes = <<>>
            /\ call'.numa_ret = NULL
            /\ Range(call'.layers) \cap NumaOps = {} ]_vars

\* SetPersistenceModeOnly(Disabled) detached a device whose memory is online.
C10_Witness ==
    /\ Returned /\ call.cmd = "SetPersistenceModeOnly"
    /\ call.layers = <<"detach">> /\ call.cfg_ok = <<TRUE>>
    /\ devices[call.dev].numa_status = NV_NUMA_STATUS_ONLINE
    /\ devices[call.dev].fd >= 0
    /\ kern[call.bus].status = NV_IOCTL_NUMA_STATUS_ONLINE

\* C11: no step of a SetNumaStatus command changes a device's stored mode or
\* attachment handle, and the command never calls nvCfgOpenPciDevice or
\* nvCfgCloseDevice, whether it succeeds or fails.
C11_NumaStatusLeavesAttachmentAlone ==
    [][ call'.cmd = "SetNumaStatus" =>
            /\ \A i \in 1..Len(devices) :
                   /\ devices'[i].mode = devices[i].mode
                   /\ devices'[i].nv_cfg_handle = devices[i].nv_cfg_handle
            /\ call'.cfg_ok = <<>>
            /\ Range(call'.layers) \cap CfgOps = {}
            /\ pc' \notin {"open_pci_device", "close_device"} ]_vars

\* SetNumaStatus(Online) failed after it had written a kernel status, on a
\* device that stays Enabled with its handle.
C11_Witness ==
    /\ Returned /\ call.cmd = "SetNumaStatus"
    /\ call.arg = NV_NUMA_STATUS_ONLINE
    /\ call.ret = NVPD_ERR_NUMA_FAILURE
    /\ call.writes # <<>>
    /\ devices[call.dev].mode = NV_PERSISTENCE_MODE_ENABLED
    /\ devices[call.dev].nv_cfg_handle # NULL

\* C12: a step in which nvCfgOpenPciDevice or nvCfgCloseDevice fails changes
\* no device record: after a failed open the device is Disabled without a
\* handle, after a failed close it is Enabled with its handle.  When the call
\* was the command's own transition the command returns NVPD_ERR_DRIVER in
\* that step (when it was the compensating call, the status of the NUMA step).
C12_FailedAttachmentChangesNothing ==
    [][ ( /\ pc \in {"open_pci_device", "close_device"}
          /\ call'.cfg_ok = Append(call.cfg_ok, FALSE) ) =>
            /\ devices' = devices
            /\ pc = "open_pci_device" =>
                   /\ devices'[frame.dev].mode = NV_PERSISTENCE_MODE_DISABLED
                   /\ devices'[frame.dev].nv_cfg_handle = NULL
            /\ pc = "close_device" =>
                   /\ devices'[frame.dev].mode = NV_PERSISTENCE_MODE_ENABLED
                   /\ devices'[frame.dev].nv_cfg_handle # NULL
            /\ call'.ret = IF frame.rollback THEN frame.ret ELSE NVPD_ERR_DRIVER
            /\ call'.layers = Append(call.layers, IF pc = "open_pci_device"
                                                  THEN "attach" ELSE "detach") ]_vars

\* A client's SetPersistenceMode(Disabled) returned NVPD_ERR_DRIVER after
\* nvCfgCloseDevice failed.
C12_Witness ==
    /\ Returned /\ call.caller = "rpc"
    /\ call.cmd = "SetPersistenceMode" /\ call.arg = NV_PERSISTENCE_MODE_DISABLED
    /\ call.layers = <<"detach">> /\ call.cfg_ok = <<FALSE>>
    /\ call.ret = NVPD_ERR_DRIVER
    /\ devices[call.dev].mode = NV_PERSISTENCE_MODE_ENABLED
    /\ devices[call.dev].nv_cfg_handle # NULL

\* C13: a SetPersistenceMode, SetPersistenceModeOnly or SetNumaStatus request
\* of a peer that is not uid 0 returns NVPD_ERR_PERMISSIONS, and one of a peer
\* whose credentials cannot be read NVPD_ERR_UNKNOWN, in the step that takes
\* the request: no device field, descriptor or kernel state changes and no
\* library or NUMA operation is made, then or later.  GetPersistenceMode of
\* such a peer is answered like root's: the stored mode, or DeviceNotFound.
C13_MutatingCommandsAreGated ==
    [][ /\ ( /\ call'.caller = "rpc" /\ call'.cred # "root"
             /\ call'.cmd \in {"SetPersistenceMode", "SetPersistenceModeOnly", "SetNumaStatus"} ) =>
               /\ call'.ret = IF call'.cred = "error" THEN NVPD_ERR_UNKNOWN
                              ELSE NVPD_ERR_PERMISSIONS
               /\ pc' = "svc_return"
               /\ call'.layers = <<>> /\ call'.cfg_ok = <<>> /\ call'.writes = <<>>
               /\ devices' = devices /\ kern' = kern /\ open_fds' = open_fds
        /\ ( /\ call'.caller = "rpc" /\ call'.cred # "root"
             /\ call'.cmd = "GetPersistenceMode" ) =>
               /\ pc' = "svc_return"
               /\ devices' = devices /\ kern' = kern /\ open_fds' = open_fds
               /\ IF Matches(call'.bus) = {}
                  THEN call'.ret = NVPD_ERR_DEVICE_NOT_FOUND
                  ELSE /\ call'.ret = NVPD_SUCCESS
                       /\ call'.arg = devices[FirstMatch(call'.bus)].mode ]_vars

\* A peer that is not root asked to online the memory of a device whose
\* stored status is Offline, and was refused.
C13_Witness ==
    /\ Returned /\ call.caller = "rpc" /\ call.cred = "user"
    /\ call.cmd = "SetNumaStatus" /\ call.arg = NV_NUMA_STATUS_ONLINE
    /\ call.ret = NVPD_ERR_PERMISSIONS
    /\ call.dev # 0
    /\ devices[call.dev].numa_status = NV_NUMA_STATUS_OFFLINE
    /\ devices[call.dev].mode = NV_PERSISTENCE_MODE_ENABLED

\* The descriptor the kernel reports for the command's device passes the
\* checks of nvNumaOnlineMemory (lines 807-841), and the kernel does not
\* online probed memory into a zone that is not movable.
ValidGeometry ==
    LET k == kern[call.bus]
    IN  /\ k.nid >= 0 /\ k.memblock_size # 0 /\ k.numa_mem_addr # 0 /\ k.numa_mem_size # 0
        /\ NV_IS_ALIGNED(k.numa_mem_addr, k.memblock_size)
        /\ NV_IS_ALIGNED(k.numa_mem_size, k.memblock_size)
        /\ k.auto # "online_normal"

\* The command ran the online (offline) sequence of the NUMA layer.
OnlineAttempted  == Returned /\ "online" \in Range(call.layers)
OfflineAttempted == Returned /\ "offline" \in Range(call.layers)

\* The NUMA status the command asked for.
RequestedStatus ==
    IF call.cmd = "SetNumaStatus" THEN call.arg ELSE Derived(call.arg)

Unattached ==
    { bus \in RequestBuses :
        /\ Matches(bus) # {}
        /\ devices[FirstMatch(bus)].nv_cfg_handle = NULL
        /\ devices[FirstMatch(bus)].fd = -1 }

\* C15 as stated: SetNumaStatus on a device without handle and descriptor
\* fails at once, without a NUMA operation, for Offline and for Online.
C15_UnattachedFails ==
    Idle => \A bus \in Unattached :
              \A status \in {NV_NUMA_STATUS_OFFLINE, NV_NUMA_STATUS_ONLINE} :
                LET r == nvPdSetDeviceNumaStatus(Machine, "rpc", 0, bus, 0, 0, status, "root")
                IN  /\ r.call.ret = NVPD_ERR_NUMA_FAILURE
                    /\ r.call.writes = <<>>

\* C15: a device has no NUMA descriptor exactly if its stored numa_status is
\* Offline.  On a device without handle and descriptor SetNumaStatus(Offline)
\* is therefore a no-op that returns success, and SetNumaStatus(Online) goes
\* on to open the device file itself; the descriptor test of
\* nvNumaOfflineMemory never fails.
C15_UnattachedOfflineIsNoOpOnlineOpens ==
    /\ \A i \in 1..Len(devices) :
           devices[i].pci_info.bus # 0 =>
               (devices[i].fd = -1 <=> devices[i].numa_status = NV_NUMA_STATUS_OFFLINE)
    /\ Idle => \A bus \in Unattached :
           /\ NoOp(nvPdSetDeviceNumaStatus(Machine, "rpc", 0, bus, 0, 0,
                                           NV_NUMA_STATUS_OFFLINE, "root"))
           /\ LET r == nvPdSetDeviceNumaStatus(Machine, "rpc", 0, bus, 0, 0,
                                               NV_NUMA_STATUS_ONLINE, "root")
              IN  /\ r.pc = "online_open"
                  /\ r.call.ret = NULL
                  /\ r.call.layers = <<"online">>
    /\ OfflineAttempted => call.io_failed \/ call.numa_ret = NVPD_SUCCESS

\* SetNumaStatus(Online) on a device without handle has run its ioctls and
\* returned success.
C15_Witness ==
    /\ Returned /\ call.caller = "rpc" /\ call.cmd = "SetNumaStatus"
    /\ call.arg = NV_NUMA_STATUS_ONLINE /\ call.dev # 0
    /\ devices[call.dev].nv_cfg_handle = NULL
    /\ devices[call.dev].mode = NV_PERSISTENCE_MODE_DISABLED
    /\ call.writes = <<NV_IOCTL_NUMA_STATUS_ONLINE_IN_PROGRESS, NV_IOCTL_NUMA_STATUS_ONLINE>>
    /\ call.ret = NVPD_SUCCESS
    /\ devices[call.dev].fd >= 0

\* The descriptors the serving daemon holds: the PID file, the socket and the
\* devices' NUMA descriptors.
HeldDescriptors ==
    {pid_fd, socket_fd} \cup {devices[i].fd : i \in 1..Len(devices)}

\* The offline sequence of a client's request has returned success.  The
\* stored status was Online when it started, so an online request had
\* succeeded before.
OfflineSucceeded ==
    OfflineAttempted /\ call.caller = "rpc" /\ call.numa_ret = NVPD_SUCCESS

\* C16 as stated: after a successful offline that follows a successful online
\* the stored status is Offline, the kernel status is Offline, the descriptor
\* is closed and forgotten, and a further Offline request is a no-op.
C16_RoundTripEndsOffline ==
    OfflineSucceeded =>
        /\ devices[call.dev].numa_status = NV_NUMA_STATUS_OFFLINE
        /\ kern[call.bus].status = NV_IOCTL_NUMA_STATUS_OFFLINE
        /\ devices[call.dev].fd = -1
        /\ open_fds \subseteq HeldDescriptors
        /\ NoOp(nvPdSetDeviceNumaStatus(Machine, "rpc", 0, call.bus, 0, 0,
                                        NV_NUMA_STATUS_OFFLINE, "root"))

\* C16: after a successful offline that follows a successful online the
\* stored status is Offline, the descriptor is closed and forgotten (fd = -1,
\* no other descriptor left open) and a further Offline request is a no-op
\* returning success.  The kernel status is Offline if the sequence found
\* Online, OnlineFailed, OfflineFailed, OnlineInProgress or Offline; a status
\* of Disabled or OfflineInProgress is left as it was found.
C16_RoundTripReleasesDescriptor ==
    OfflineSucceeded =>
        /\ devices[call.dev].numa_status = NV_NUMA_STATUS_OFFLINE
        /\ kern[call.bus].status =
               IF call.status0 \in {NV_IOCTL_NUMA_STATUS_DISABLED,
                                    NV_IOCTL_NUMA_STATUS_OFFLINE_IN_PROGRESS}
               THEN call.status0 ELSE NV_IOCTL_NUMA_STATUS_OFFLINE
        /\ devices[call.dev].fd = -1
        /\ open_fds \subseteq HeldDescriptors
        /\ NoOp(nvPdSetDeviceNumaStatus(Machine, "rpc", 0, call.bus, 0, 0,
                                        NV_NUMA_STATUS_OFFLINE, "root"))

\* SetNumaStatus(Offline) found the kernel status Online, took every block
\* offline, wrote OfflineInProgress and Offline and released the descriptor.
C16_Witness ==
    /\ OfflineSucceeded /\ call.cmd = "SetNumaStatus"
    /\ call.status0 = NV_IOCTL_NUMA_STATUS_ONLINE
    /\ call.writes = <<NV_IOCTL_NUMA_STATUS_OFFLINE_IN_PROGRESS, NV_IOCTL_NUMA_STATUS_OFFLINE>>
    /\ kern[call.bus].exists # {} /\ kern[call.bus].online = {}
    /\ devices[call.dev].fd = -1
    /\ devices[call.dev].numa_status = NV_NUMA_STATUS_OFFLINE

\* C17 as stated: when the process has exited and every nvCfgCloseDevice call
\* of the teardown succeeded, no device holds a handle, whatever the NUMA
\* offlining of the teardown did.
C17_NoLiveHandleAtExit ==
    ( phase = "exited" /\ ~call.detach_failed ) =>
        \A i \in 1..Len(devices) : devices[i].nv_cfg_handle = NULL

\* C19: when a signal cuts a NUMA status change short (the command had written
\* a status to the kernel, had met no status in progress and no failing call),
\* the teardown that follows leaves that device's kernel status out of the two
\* in-progress values by the time the process exits.
C19_InterruptedSequenceIsResolvedAtExit ==
    ( phase = "exited" /\ call.interrupted # 0 ) =>
        kern[call.interrupted].status \notin {NV_IOCTL_NUMA_STATUS_ONLINE_IN_PROGRESS,
                                              NV_IOCTL_NUMA_STATUS_OFFLINE_IN_PROGRESS}

\* C18: once shutdown_daemon() has started, the process reaches exit, whatever
\* the outcome of the socket close and unlink, of each detach, of each NUMA
\* offline step and of the PID-file calls.
C18_TeardownReachesExit == (phase = "shutdown") ~> (phase = "exited")

\* The process has exited after a teardown in which a detach failed and the
\* socket and the PID file could not be unlinked.
C18_Witness ==
    /\ phase = "exited"
    /\ call.detach_failed
    /\ pid_fd # -1 /\ "pidfile" \in fs /\ "socket" \in fs

\* The node of the command's device lists a contiguous run of block ids that
\* covers the region exactly: region size / memory block size of them.
NodeHoldsRegion ==
    LET k == kern[call.bus]
    IN  /\ k.node_ids # {}
        /\ \A a, b \in k.node_ids : \A c \in a..b : c \in k.node_ids
        /\ Cardinality(k.node_ids) * k.memblock_size = k.numa_mem_size

\* The online sequence wrote OnlineInProgress then Online and nothing else,
\* returned success with every block of the node online, and the record keeps
\* the descriptor and the status Online.
OnlineCompleted ==
    /\ call.numa_ret = NVPD_SUCCESS
    /\ call.writes = <<NV_IOCTL_NUMA_STATUS_ONLINE_IN_PROGRESS, NV_IOCTL_NUMA_STATUS_ONLINE>>
    /\ kern[call.bus].node_ids \subseteq kern[call.bus].online
    /\ devices[call.dev].fd >= 0
    /\ devices[call.dev].numa_status = NV_NUMA_STATUS_ONLINE

\* C20 as stated: on valid aligned geometry, with a node that holds the
\* region's blocks, all of them offline, an online sequence whose every I/O
\* step succeeds completes, whatever status the kernel reported before.
C20_OnlineCompletesOnValidGeometry ==
    ( /\ OnlineAttempted /\ ~call.io_failed
      /\ ValidGeometry /\ NodeHoldsRegion
      /\ call.online0 = {} )
    => OnlineCompleted

\* C20: the same, for a device whose kernel status was Offline, OnlineFailed
\* or OfflineFailed when the request began.
C20_OnlineCompletesFromOfflineOrFailed ==
    ( /\ OnlineAttempted /\ ~call.io_failed
      /\ ValidGeometry /\ NodeHoldsRegion
      /\ call.online0 = {}
      /\ call.status0 \in {NV_IOCTL_NUMA_STATUS_OFFLINE,
                           NV_IOCTL_NUMA_STATUS_ONLINE_FAILED,
                           NV_IOCTL_NUMA_STATUS_OFFLINE_FAILED} )
    => OnlineCompleted

\* A client's online request on such a device has completed after an earlier
\* request had failed and left the kernel status OnlineFailed.
C20_Witness ==
    /\ OnlineAttempted /\ ~call.io_failed /\ call.caller = "rpc"
    /\ ValidGeometry /\ NodeHoldsRegion
    /\ call.online0 = {}
    /\ call.status0 = NV_IOCTL_NUMA_STATUS_ONLINE_FAILED
    /\ OnlineCompleted

\* The places of the online sequence, by the external call that was running:
\* the alignment check follows the OnlineInProgress ioctl, the shortfall check
\* follows the last block of the pass.
AlignmentCheck  == {"online_set_in_progress"}
ProbeStep       == {"probe_write"}
AutoOnlineCheck == {"auto_opendir", "auto_read_state", "auto_read_zones"}
BlockPass       == {"chg_gather", "chg_read_state", "chg_write_state"}
Retirement      == {"retire"}
OnlineWrite     == {"online_set_online"}

\* The online sequence is about to write OnlineFailed after a failure at one
\* of places, and the step that follows is the daemon's.
AboutToSetOnlineFailed(places) ==
    /\ pc = "online_set_failed" /\ call.failed_at \in places
    /\ phase' = phase

\* The offline rollback, offline_memory() called from the online sequence,
\* has been run.
RollbackRun == "offline_get_info" \in call.steps

\* C21 as stated: after a failure at the alignment check, the probe, the
\* auto-online check, the block pass with its shortfall check or the page
\* retirement, the offline rollback has run by the time OnlineFailed is
\* written, and the sequence returns failure.
C21_RollbackBeforeOnlineFailed ==
    [][ AboutToSetOnlineFailed(AlignmentCheck \cup ProbeStep \cup AutoOnlineCheck
                                   \cup BlockPass \cup Retirement)
        => /\ RollbackRun
           /\ call'.numa_ret = NVPD_ERR_NUMA_FAILURE ]_vars

\* C21: after a failure at the probe, the block pass, the page retirement or
\* the write of Online the rollback has run by the time OnlineFailed is
\* written; after a failure at the alignment check or the auto-online check
\* OnlineFailed is written with no rollback.  The sequence returns failure
\* in both cases.
C21_RollbackUnlessAlignmentOrAutoCheck ==
    [][ /\ AboutToSetOnlineFailed(ProbeStep \cup BlockPass \cup Retirement \cup OnlineWrite)
           => RollbackRun /\ call'.numa_ret = NVPD_ERR_NUMA_FAILURE
        /\ AboutToSetOnlineFailed(AlignmentCheck \cup AutoOnlineCheck)
           => ~RollbackRun /\ call'.numa_ret = NVPD_ERR_NUMA_FAILURE ]_vars

\* An online request failed in the block pass: the rollback wrote
\* OfflineInProgress and Offline, then OnlineFailed was written.
C21_Witness ==
    /\ Returned /\ call.failed_at \in BlockPass
    /\ RollbackRun
    /\ call.writes = <<NV_IOCTL_NUMA_STATUS_ONLINE_IN_PROGRESS,
                       NV_IOCTL_NUMA_STATUS_OFFLINE_IN_PROGRESS,
                       NV_IOCTL_NUMA_STATUS_OFFLINE,
                       NV_IOCTL_NUMA_STATUS_ONLINE_FAILED>>
    /\ call.numa_ret = NVPD_ERR_NUMA_FAILURE

\* C22: an offline sequence that finds the kernel status OfflineInProgress
\* returns failure, keeps the descriptor and leaves the stored numa_status
\* Online; one that finds OnlineFailed or OfflineFailed goes on, when its
\* calls succeed, to write OfflineInProgress and to the block pass.
C22_OfflineRejectsInProgressAcceptsFailed ==
    OfflineAttempted =>
        /\ call.status0 = NV_IOCTL_NUMA_STATUS_OFFLINE_IN_PROGRESS
           => /\ call.numa_ret = NVPD_ERR_NUMA_FAILURE
              /\ devices[call.dev].fd >= 0
              /\ devices[call.dev].numa_status = NV_NUMA_STATUS_ONLINE
        /\ ( /\ call.status0 \in {NV_IOCTL_NUMA_STATUS_ONLINE_FAILED,
                                   NV_IOCTL_NUMA_STATUS_OFFLINE_FAILED}
             /\ ~call.io_failed )
           => /\ call.writes # << >>
              /\ call.writes[1] = NV_IOCTL_NUMA_STATUS_OFFLINE_IN_PROGRESS
              /\ "chg_gather" \in call.steps

\* C23: when the block pass of an offline sequence changed fewer blocks than
\* the region holds, the sequence returns failure, Offline is never written,
\* the kernel status ends as OfflineFailed (if the ioctl writing it went
\* through), the descriptor stays open and the stored numa_status stays
\* Online.
C23_OfflineShortfallFails ==
    ( OfflineAttempted /\ call.offline_shortfall ) =>
        /\ call.numa_ret = NVPD_ERR_NUMA_FAILURE
        /\ NV_IOCTL_NUMA_STATUS_OFFLINE \notin Range(call.writes)
        /\ call.last_set_ok => kern[call.bus].status = NV_IOCTL_NUMA_STATUS_OFFLINE_FAILED
        /\ devices[call.dev].fd >= 0
        /\ devices[call.dev].numa_status = NV_NUMA_STATUS_ONLINE

\* The descriptors the daemon means to hold: those of HeldDescriptors and,
\* until init_complete() closes it, the pipe to the parent.
KnownDescriptors ==
    HeldDescriptors \cup (IF phase = "setup" THEN {pipe_write_fd} ELSE {})

\* The online sequence made no call beyond the open of the device file and
\* the NV_ESC_NUMA_INFO query: no status write, no probe, no read or write
\* of a block, no page retirement, no rollback.
OnlineStoppedAfterQuery ==
    /\ call.writes = << >>
    /\ call.steps \subseteq {"online_open", "online_get_info"}
    /\ kern[call.bus].status = call.status0

\* C24: an online sequence that finds the kernel status OnlineInProgress or
\* OfflineInProgress returns failure after the query, and the descriptor it
\* opened is closed: the record's fd stays -1 and no descriptor is left open.
C24_OnlineRejectsInProgress ==
    ( OnlineAttempted /\ call.status0 \in InProgress ) =>
        /\ call.numa_ret = NVPD_ERR_NUMA_FAILURE
        /\ OnlineStoppedAfterQuery
        /\ devices[call.dev].fd = -1
        /\ devices[call.dev].numa_status = NV_NUMA_STATUS_OFFLINE
        /\ open_fds \subseteq KnownDescriptors

\* An online request found OfflineInProgress, its open and its query having
\* succeeded, and was refused.
C24_Witness ==
    /\ OnlineAttempted /\ ~call.io_failed
    /\ call.status0 = NV_IOCTL_NUMA_STATUS_OFFLINE_IN_PROGRESS
    /\ "online_get_info" \in call.steps
    /\ call.numa_ret = NVPD_ERR_NUMA_FAILURE
    /\ devices[call.dev].fd = -1

\* C25: an online sequence whose query reports the kernel status Disabled or
\* Online returns success after the query: it writes no status, probes
\* nothing, reads or writes no block and retires no page; the descriptor it
\* opened is kept in the record and the stored numa_status becomes Online.
C25_OnlineIsImmediateWhenDisabledOrOnline ==
    ( /\ OnlineAttempted /\ ~call.io_failed
      /\ call.status0 \in {NV_IOCTL_NUMA_STATUS_DISABLED, NV_IOCTL_NUMA_STATUS_ONLINE} )
    => /\ call.numa_ret = NVPD_SUCCESS
       /\ OnlineStoppedAfterQuery
       /\ call.steps = {"online_open", "online_get_info"}
       /\ kern[call.bus].online = call.online0
       /\ devices[call.dev].fd >= 0
       /\ devices[call.dev].fd \in open_fds
       /\ devices[call.dev].numa_status = NV_NUMA_STATUS_ONLINE

\* An online request on memory that was online already has returned success
\* and kept the descriptor.
C25_Witness ==
    /\ OnlineAttempted /\ ~call.io_failed
    /\ call.status0 = NV_IOCTL_NUMA_STATUS_ONLINE
    /\ call.online0 = BlockIds
    /\ call.numa_ret = NVPD_SUCCESS
    /\ devices[call.dev].fd >= 0
    /\ devices[call.dev].numa_status = NV_NUMA_STATUS_ONLINE

\* The descriptor the kernel reports for the command's device fails the test
\* of nvNumaOnlineMemory lines 807-810.
InvalidDescriptor ==
    LET k == kern[call.bus]
    IN  k.nid < 0 \/ k.memblock_size = 0 \/ k.numa_mem_addr = 0 \/ k.numa_mem_size = 0

\* The online sequence failed without a call beyond the open and the query,
\* left the kernel status as it was and closed the descriptor it opened.
OnlineRefusedAfterQuery ==
    /\ call.numa_ret = NVPD_ERR_NUMA_FAILURE
    /\ OnlineStoppedAfterQuery
    /\ devices[call.dev].fd = -1
    /\ open_fds \subseteq KnownDescriptors

\* C26 as stated: an online sequence on a device whose descriptor is invalid
\* fails before OnlineInProgress is written, whatever the kernel status.
C26_InvalidDescriptorFails ==
    ( OnlineAttempted /\ InvalidDescriptor ) => OnlineRefusedAfterQuery

\* C26: the same for a device whose kernel status is neither Disabled nor
\* Online; for these two the sequence has succeeded before the descriptor is
\* looked at.
C26_InvalidDescriptorFailsUnlessDisabledOrOnline ==
    ( /\ OnlineAttempted /\ InvalidDescriptor
      /\ call.status0 \notin {NV_IOCTL_NUMA_STATUS_DISABLED, NV_IOCTL_NUMA_STATUS_ONLINE} )
    => OnlineRefusedAfterQuery

\* An online request whose query reported the status Offline and a memory
\* block size of 0 was refused.
C26_Witness ==
    /\ OnlineAttempted /\ ~call.io_failed
    /\ call.status0 = NV_IOCTL_NUMA_STATUS_OFFLINE
    /\ kern[call.bus].memblock_size = 0
    /\ OnlineRefusedAfterQuery

\* The region of the command's device does not start or does not end on a
\* multiple of the memory block size.
Misaligned ==
    LET k == kern[call.bus]
    IN  /\ k.memblock_size # 0
        /\ \/ k.numa_mem_addr % k.memblock_size # 0
           \/ (k.numa_mem_addr + k.numa_mem_size) % k.memblock_size # 0

\* C27: an online sequence on a misaligned region fails; beyond the open and
\* the query it makes at most the two status writes OnlineInProgress and
\* OnlineFailed, in that order: no probe, no read or write of a block, no
\* rollback; no block exists or is online that was not before, and the
\* record keeps no descriptor.
C27_MisalignedRegionFails ==
    ( OnlineAttempted /\ Misaligned ) =>
        /\ call.numa_ret = NVPD_ERR_NUMA_FAILURE
        /\ call.steps \subseteq {"online_open", "online_get_info",
                                  "online_set_in_progress", "online_set_failed"}
        /\ call.writes \in { << >>,
                             <<NV_IOCTL_NUMA_STATUS_ONLINE_IN_PROGRESS>>,
                             <<NV_IOCTL_NUMA_STATUS_ONLINE_IN_PROGRESS,
                               NV_IOCTL_NUMA_STATUS_ONLINE_FAILED>> }
        /\ kern[call.bus].exists = {} /\ kern[call.bus].online = {}
        /\ devices[call.dev].fd = -1
        /\ devices[call.dev].numa_status = NV_NUMA_STATUS_OFFLINE

\* An online request on a region that starts on a block boundary and does not
\* end on one wrote OnlineInProgress and OnlineFailed and failed.
C27_Witness ==
    /\ OnlineAttempted /\ ~call.io_failed /\ Misaligned
    /\ kern[call.bus].numa_mem_addr % kern[call.bus].memblock_size = 0
    /\ call.writes = <<NV_IOCTL_NUMA_STATUS_ONLINE_IN_PROGRESS,
                       NV_IOCTL_NUMA_STATUS_ONLINE_FAILED>>
    /\ kern[call.bus].status = NV_IOCTL_NUMA_STATUS_ONLINE_FAILED
    /\ call.numa_ret = NVPD_ERR_NUMA_FAILURE

\* The start addresses of the memory-block-sized spans of the region of the
\* command's device, from its base upwards.
Spans ==
    LET k == kern[call.bus]
    IN  [ j \in 1..(k.numa_mem_size \div k.memblock_size) |->
              k.numa_mem_addr + (j - 1) * k.memblock_size ]

IsPrefix(p, q) == Len(p) <= Len(q) /\ \A i \in 1..Len(p) : p[i] = q[i]

\* The online sequence has gone past the probe: whatever it did to the
\* blocks, it looked at the node directory.
WentPastProbe == "auto_opendir" \in call.steps

AllOnlineMovableAtCheck ==
    /\ call.dir_at_check # {}
    /\ call.dir_at_check \subseteq call.movable_at_check

\* C29: an online sequence that finds every block of the node online and
\* movable, and whose calls all succeed, reads and writes no block state,
\* goes through the page retirement when there are addresses to retire,
\* writes OnlineInProgress and Online and returns success.
C29_AutoOnlinedSkipsBlockPass ==
    ( /\ OnlineAttempted /\ ~call.io_failed
      /\ WentPastProbe /\ AllOnlineMovableAtCheck )
    => /\ call.steps \cap BlockPass = {}
       /\ kern[call.bus].numEntries > 0 => "retire" \in call.steps
       /\ call.writes = <<NV_IOCTL_NUMA_STATUS_ONLINE_IN_PROGRESS,
                          NV_IOCTL_NUMA_STATUS_ONLINE>>
       /\ kern[call.bus].status = NV_IOCTL_NUMA_STATUS_ONLINE
       /\ call.numa_ret = NVPD_SUCCESS
       /\ devices[call.dev].fd >= 0

\* An online request found both blocks of the node onlined behind its back,
\* retired the blacklisted addresses and set the status Online.
C29_Witness ==
    /\ OnlineAttempted /\ ~call.io_failed
    /\ call.dir_at_check = BlockIds /\ AllOnlineMovableAtCheck
    /\ "retire" \in call.steps
    /\ call.steps \cap BlockPass = {}
    /\ call.numa_ret = NVPD_SUCCESS
    /\ kern[call.bus].status = NV_IOCTL_NUMA_STATUS_ONLINE

\* When the auto-online check began, a block of the node directory was
\* online with a zone other than Movable first in its valid_zones.
SomeOnlineNotMovableAtCheck == call.dir_at_check \cap call.normal_at_check # {}

\* C30: an online sequence whose auto-online check meets a block that is
\* online and not movable fails; when no read failed, at the valid_zones of
\* such a block.  It reads and writes no block state, runs no rollback and
\* retires no page, so the blocks stay as the check found them; Online is
\* never written and the kernel status ends as OnlineFailed (if the ioctl
\* writing it went through).
C30_NotMovableAbortsWithoutBlockChange ==
    ( OnlineAttempted /\ WentPastProbe /\ SomeOnlineNotMovableAtCheck ) =>
        /\ call.numa_ret = NVPD_ERR_NUMA_FAILURE
        /\ call.failed_at \in AutoOnlineCheck
        /\ ~call.io_failed => call.failed_at = "auto_read_zones"
        /\ call.steps \cap BlockPass = {}
        /\ ~RollbackRun
        /\ "retire" \notin call.steps
        /\ call.normal_at_check \subseteq kern[call.bus].online
        /\ NV_IOCTL_NUMA_STATUS_ONLINE \notin Range(call.writes)
        /\ call.last_set_ok => kern[call.bus].status = NV_IOCTL_NUMA_STATUS_ONLINE_FAILED
        /\ devices[call.dev].fd = -1

\* An online request with no failing call stopped at a block the kernel had
\* onlined into a zone that is not movable, and left the status OnlineFailed.
C30_Witness ==
    /\ OnlineAttempted /\ ~call.io_failed
    /\ SomeOnlineNotMovableAtCheck
    /\ call.failed_at = "auto_read_zones"
    /\ call.writes = <<NV_IOCTL_NUMA_STATUS_ONLINE_IN_PROGRESS,
                       NV_IOCTL_NUMA_STATUS_ONLINE_FAILED>>
    /\ kern[call.bus].status = NV_IOCTL_NUMA_STATUS_ONLINE_FAILED
    /\ kern[call.bus].online # {}
    /\ call.numa_ret = NVPD_ERR_NUMA_FAILURE

(***************************************************************************)
(* The block pass of a node state change.                                  *)
(***************************************************************************)
\* The block ids lo..hi in the order a pass to new_state takes them: from the
\* highest down when onlining, from the lowest up when offlining.
PassOrder(lo, hi, new_state) ==
    [ j \in 1..(hi - lo + 1) |->
          IF new_state = NV_IOCTL_NUMA_STATUS_ONLINE THEN hi - j + 1 ELSE lo + j - 1 ]

\* A node state change has scanned the node directory and found blocks.
PassScanned == call.pass_dir # {}

\* C31: a node state change attempts the block ids from the lowest to the
\* highest id of the node directory, each once, from the highest down when
\* onlining and from the lowest up when offlining; while it runs, the ids
\* attempted so far are the beginning of that order, and when its loop has
\* ended they are the whole of it, whatever attempts failed.
C31_EveryBlockOnceInOrder ==
    PassScanned =>
        LET want == PassOrder(Min(call.pass_dir), Max(call.pass_dir), call.pass_state)
        IN  /\ IsPrefix(call.attempts, want)
            /\ call.pass_done => call.attempts = want

(***************************************************************************)
(* Retirement of the blacklisted addresses.                                *)
(***************************************************************************)
\* The writes to hard_offline_page so far all succeeded, but possibly the last.
OnlyLastRetirementFailed ==
    \A j \in 1..(Len(call.retired) - 1) : call.retired[j]

\* Every blacklisted address of the command's device was retired.
AllRetired ==
    call.retired = [j \in 1..kern[call.bus].numEntries |-> TRUE]

\* C32: in the online sequence the blacklisted addresses are retired only
\* once the online block pass has ended without an error, or the auto-online
\* check found every block online and movable; the final write of Online
\* comes only after every address was retired.  The first retirement that
\* fails is the last one attempted: the offline rollback follows, Online is
\* never written, the request fails and the kernel status ends as
\* OnlineFailed (if the ioctl writing it went through).
C32_RetireAllBeforeOnline ==
    /\ pc = "retire" =>
          \/ call.pass_done /\ call.pass_state = NV_IOCTL_NUMA_STATUS_ONLINE
          \/ call.steps \cap BlockPass = {} /\ AllOnlineMovableAtCheck
    /\ "retire" \in call.steps =>
          /\ OnlyLastRetirementFailed
          /\ Len(call.retired) <= kern[call.bus].numEntries
    /\ "online_set_online" \in call.steps => AllRetired
    /\ ( OnlineAttempted /\ call.retired # << >> /\ ~call.retired[Len(call.retired)] ) =>
          /\ call.failed_at = "retire"
          /\ RollbackRun
          /\ "online_set_online" \notin call.steps
          /\ NV_IOCTL_NUMA_STATUS_ONLINE \notin Range(call.writes)
          /\ kern[call.bus].status # NV_IOCTL_NUMA_STATUS_ONLINE
          /\ call.last_set_ok => kern[call.bus].status = NV_IOCTL_NUMA_STATUS_ONLINE_FAILED
          /\ call.numa_ret = NVPD_ERR_NUMA_FAILURE
          /\ devices[call.dev].fd = -1

\* An online request retired the first blacklisted address, failed to retire
\* the second, rolled back and left the kernel status OnlineFailed.
C32_Witness ==
    /\ OnlineAttempted
    /\ call.retired = <<TRUE, FALSE>>
    /\ RollbackRun
    /\ kern[call.bus].status = NV_IOCTL_NUMA_STATUS_ONLINE_FAILED
    /\ call.numa_ret = NVPD_ERR_NUMA_FAILURE

(***************************************************************************)
(* The offline rollback of a failed online sequence.                       *)
(***************************************************************************)
\* The status ioctls that went through began with the write of OnlineInProgress.
WroteOnlineInProgress ==
    call.writes # << >> /\ call.writes[1] = NV_IOCTL_NUMA_STATUS_ONLINE_IN_PROGRESS

\* C33: the offline rollback of a failed online sequence finds the kernel
\* status OnlineInProgress and is let through by offline_memory's check of
\* the status: it goes on to write OfflineInProgress.  A failed online
\* sequence that had written OnlineInProgress leaves the kernel status
\* OnlineFailed, whatever the rollback did and wrote, when the ioctl that
\* writes OnlineFailed goes through.
C33_RollbackProceedsAndEndsOnlineFailed ==
    /\ ( pc = "offline_get_info" /\ frame.in_online ) =>
          K.status = NV_IOCTL_NUMA_STATUS_ONLINE_IN_PROGRESS
    /\ ( OnlineAttempted /\ RollbackRun /\ call.offline_found # -1 ) =>
          /\ call.offline_found = NV_IOCTL_NUMA_STATUS_ONLINE_IN_PROGRESS
          /\ "offline_set_in_progress" \in call.steps
    /\ ( OnlineAttempted /\ call.numa_ret = NVPD_ERR_NUMA_FAILURE
           /\ WroteOnlineInProgress /\ call.last_set_ok ) =>
          /\ kern[call.bus].status = NV_IOCTL_NUMA_STATUS_ONLINE_FAILED
          /\ call.writes[Len(call.writes)] = NV_IOCTL_NUMA_STATUS_ONLINE_FAILED

\* A failed online request whose rollback offlined the blocks and wrote
\* Offline, and which then left the kernel status OnlineFailed.
C33_Witness ==
    /\ OnlineAttempted /\ RollbackRun
    /\ call.offline_found = NV_IOCTL_NUMA_STATUS_ONLINE_IN_PROGRESS
    /\ NV_IOCTL_NUMA_STATUS_OFFLINE \in Range(call.writes)
    /\ call.last_set_ok
    /\ kern[call.bus].status = NV_IOCTL_NUMA_STATUS_ONLINE_FAILED
    /\ call.numa_ret = NVPD_ERR_NUMA_FAILURE

(***************************************************************************)
(* The launch of the daemon.                                               *)
(***************************************************************************)
\* The child wrote the success byte to the init pipe.
Ready == init_pipe.byte

\* C34: the process that forked exits with success only when the child wrote
\* the success byte, which it does only after the library, the devices and
\* the RPC socket were set up; when the child exits without having written it,
\* at whatever step, the pipe is closed and a parent that has exited has exited
\* with failure; the daemon serves no request before it wrote the byte.
C34_ParentSucceedsOnlyAfterReady ==
    /\ parent = "EXIT_SUCCESS" => Ready
    /\ Ready => /\ pid_fd # -1 /\ socket_fd # -1
                /\ devices # << >> /\ num_devices >= 1
                /\ phase \in {"serving", "shutdown", "exited"}
    /\ phase = "exited" => ~init_pipe.write_open
    /\ ( phase = "exited" /\ ~Ready /\ parent # "waiting" ) => parent = "EXIT_FAILURE"
    /\ ( phase = "launch" /\ pc = "exit" ) => parent = "EXIT_FAILURE"
    /\ ( phase = "serving" \/ call.caller = "rpc" ) => Ready

\* The parent has exited with success and the daemon is running a request.
C34_Witness ==
    /\ parent = "EXIT_SUCCESS"
    /\ phase = "serving" /\ call.caller = "rpc" /\ call.ret = NULL

(***************************************************************************)
(* C35: the descriptor and the stored NUMA status agree between commands.  *)
(***************************************************************************)
\* The steps of an online or offline sequence that run with the device file
\* open.
NumaPcsWithDescriptor ==
    { "online_get_info", "online_set_in_progress", "probe_write", "auto_opendir",
      "auto_read_state", "auto_read_zones", "chg_gather", "chg_read_state",
      "chg_write_state", "retire", "online_set_online", "online_set_failed",
      "offline_get_info", "offline_set_in_progress", "offline_set_offline",
      "offline_set_failed" }

\* The entries of the device table that setup_devices has initialised, at a
\* point where no command is running.
DevicesBetweenCommands ==
    IF Idle THEN 1..Len(devices)
    ELSE IF phase = "setup" /\ pc = "setup_loop" THEN 1..(idx - 1)
    ELSE {}

\* C35: between commands a device holds a NUMA descriptor (fd >= 0) exactly
\* when its stored numa_status is Online, the descriptors held are open and
\* belong to one device each; an online sequence starts with no descriptor
\* stored, the descriptor a sequence works on (and closes at its end) is open
\* throughout, and a failed online leaves fd = -1 with its descriptor closed.
C35_DescriptorIffOnline ==
    /\ \A i \in DevicesBetweenCommands :
          /\ devices[i].fd >= 0 <=> devices[i].numa_status = NV_NUMA_STATUS_ONLINE
          /\ devices[i].fd >= 0 => devices[i].fd \in open_fds
          /\ \A j \in DevicesBetweenCommands :
                ( i # j /\ devices[i].fd >= 0 ) => devices[i].fd # devices[j].fd
    /\ ( pc \in NumaPcsWithDescriptor \cup {"online_open"}
         /\ frame.numa_status = NV_NUMA_STATUS_ONLINE )
          => devices[frame.dev].fd = -1
    /\ pc \in NumaPcsWithDescriptor \ {"offline_get_info"} => frame.fd \in open_fds
    /\ ( OnlineAttempted /\ call.numa_ret # NVPD_SUCCESS ) =>
          /\ devices[call.dev].fd = -1
          /\ devices[call.dev].numa_status # NV_NUMA_STATUS_ONLINE
          /\ open_fds \subseteq KnownDescriptors

\* Between commands a device is Online with its descriptor open and blocks
\* of its memory online.
C35_Witness ==
    /\ Idle /\ Len(devices) >= 1
    /\ devices[1].numa_status = NV_NUMA_STATUS_ONLINE
    /\ devices[1].fd >= 0 /\ devices[1].fd \in open_fds
    /\ kern[devices[1].pci_info.bus].online # {}

(***************************************************************************)
(* C38: the compensating transition needs a mode this call changed.        *)
(***************************************************************************)
\* The attach and detach calls the command has made.
CfgCalls == SelectSeq(call.layers, LAMBDA l : l \in {"attach", "detach"})

\* C38: a returned SetPersistenceMode makes a second attachment call only
\* after a first one that succeeded and changed the mode, followed by a
\* failed NUMA step; when the requested mode equalled the stored mode and
\* the NUMA step failed, no attach or detach was called and the stored mode
\* and handle are what they were when the command started.
C38_CompensateOnlyOwnChange ==
    ( Returned /\ call.cmd = "SetPersistenceMode" /\ call.dev # 0 ) =>
        /\ Len(CfgCalls) <= 2
        /\ Len(CfgCalls) = 2 =>
              /\ call.mode0 # call.arg /\ call.cfg_ok[1]
              /\ call.numa_ret \notin {NULL, NVPD_SUCCESS}
              /\ call.layers[1] \in {"attach", "detach"}
              /\ call.layers[Len(call.layers)] \in {"attach", "detach"}
        /\ ( call.mode0 = call.arg /\ call.numa_ret \notin {NULL, NVPD_SUCCESS} ) =>
              /\ CfgCalls = << >> /\ call.cfg_ok = << >>
              /\ devices[call.dev].mode = call.mode0
              /\ devices[call.dev].nv_cfg_handle = call.handle0
              /\ call.ret = call.numa_ret

\* SetPersistenceMode(Enabled) on a device already Enabled whose memory was
\* Offline: the online sequence ran, wrote a status and failed.
C38_Witness ==
    /\ Returned /\ call.cmd = "SetPersistenceMode" /\ call.dev # 0
    /\ call.mode0 = NV_PERSISTENCE_MODE_ENABLED /\ call.arg = call.mode0
    /\ call.numa_ret = NVPD_ERR_NUMA_FAILURE /\ call.writes # << >>
    /\ "online" \in Range(call.layers)
    /\ devices[call.dev].nv_cfg_handle # NULL

(***************************************************************************)
(* C39: what the teardown leaves of the devices' NUMA memory.              *)
(***************************************************************************)
\* shutdown_daemon() ran to its exit() and none of its nvCfgCloseDevice
\* calls and none of its NUMA steps failed.
TeardownWithoutFailure ==
    /\ phase = "exited" /\ exit_status # "SIGSEGV" /\ teardown.entries = 1
    /\ ~call.detach_failed /\ ~call.numa_failed /\ call.interrupted = 0

\* C39 as stated: after a teardown in which no detach and no offline step
\* failed, no device has stored numa_status Online or holds a NUMA
\* descriptor (an entry the setup loop never reached holds none).
C39_NothingOnlineAfterTeardown ==
    TeardownWithoutFailure =>
        \A i \in 1..Len(devices) :
            /\ devices[i].numa_status # NV_NUMA_STATUS_ONLINE
            /\ devices[i].fd < 0 \/ devices[i] = ZeroDevice

\* The loop of shutdown_daemon passed over a device without a handle whose
\* memory is online: it exits Online with its descriptor and blocks online.
C39_DetachedDeviceStaysOnline ==
    /\ TeardownWithoutFailure
    /\ \E i \in 1..Len(devices) :
          /\ devices[i].mode = NV_PERSISTENCE_MODE_DISABLED
          /\ devices[i].nv_cfg_handle = NULL
          /\ devices[i].numa_status = NV_NUMA_STATUS_ONLINE
          /\ devices[i].fd >= 0
          /\ kern[devices[i].pci_info.bus].online # {}

(***************************************************************************)
(* C36: a node state change ends within the node's range of ids.           *)
(***************************************************************************)
\* max - min + 1 over the ids the node directory held at the scan.
PassRange == Max(call.pass_dir) - Min(call.pass_dir) + 1

\* C36 as stated: a node state change makes at most (max - min + 1) block
\* attempts, whatever the node directory holds, so its loop has ended by
\* then.
C36_PassEndsWithinRange ==
    PassScanned => Len(call.attempts) <= PassRange

\* An online pass over a directory that lists memory0 has made more
\* attempts than the range has ids, and its loop has not ended.
C36_OnlinePassRunsOn ==
    /\ PassScanned /\ 0 \in call.pass_dir
    /\ call.pass_state = NV_IOCTL_NUMA_STATUS_ONLINE
    /\ Len(call.attempts) > PassRange /\ ~call.pass_done

(***************************************************************************)
(* C37: SIGINT and SIGTERM against a teardown that is running.             *)
(***************************************************************************)
\* C37 as stated: in one process shutdown_daemon() is entered at most once,
\* the device table is not read or freed after it was freed, and
\* nvCfgCloseDevice is not called twice for a device's handle.
C37_TeardownRunsOnce ==
    /\ teardown.entries <= 1
    /\ ~teardown.stale
    /\ ~teardown.twice

\* A second signal entered shutdown_daemon() again after the first run had
\* freed the device table, and the second run went through the table.
C37_TableUsedAfterFree ==
    teardown.entries = 2 /\ teardown.freed /\ teardown.stale

\* A second signal cut into a nvCfgCloseDevice call, and the second run of
\* the teardown called nvCfgCloseDevice for the same device.
C37_DetachedTwice ==
    teardown.entries = 2 /\ teardown.in_call # 0 /\ teardown.twice

(***************************************************************************)
(* C40: an instance that is refused the PID-file lock.                     *)
(***************************************************************************)
\* lockf() refused this process the lock on the PID file.
LockRefused == other.refused

\* C40: from the moment lockf() fails, the instance holds neither the PID
\* file nor a socket, never reaches the setup of the RPC service, and the
\* runtime directory, the PID file and the files of the instance that holds
\* the lock stay in place up to and after its exit; the socket path exists
\* exactly when the other instance made it.
C40_RefusedInstanceRemovesNothing ==
    LockRefused =>
        /\ phase \in {"shutdown", "exited"}
        /\ pid_fd = -1 /\ socket_fd = -1
        /\ {"dir", "pidfile"} \subseteq fs
        /\ other.files \subseteq fs
        /\ "socket" \in fs <=> "socket" \in other.files

\* The instance created the runtime directory itself, was refused the lock
\* by an instance that started alongside and serves on its socket, ran
\* shutdown_daemon() with remove_dir set, and has exited.
C40_Witness ==
    /\ LockRefused /\ phase = "exited" /\ exit_status = "EXIT_FAILURE"
    /\ other.runs = "yes" /\ "socket" \in other.files
    /\ remove_dir /\ pid > 0 /\ teardown.entries = 1
    /\ {"dir", "pidfile", "socket"} \subseteq fs

====
